---- MODULE Spec2Model ----
(***************************************************************************)
(* Model of the request/response adapter of vertex_desktop/main.py:        *)
(* APIWorker (the worker thread that authenticates, builds the request,    *)
(* POSTs, streams the body and parses it) and the part of QueryTab /       *)
(* MainWindow that starts, stops and receives the result of workers.       *)
(*                                                                         *)
(* Strings of the program that are compared or concatenated (prompts,      *)
(* response bodies, replies) are sequences of characters; labels and       *)
(* error messages are TLA+ strings.                                        *)
(***************************************************************************)
EXTENDS Integers, Sequences, FiniteSets, TLC

\* ------------------------------------------------------------------ bounds
\* workers (requests) started in one behaviour
MaxWorkers == 2
\* chunks one response stream delivers before it ends or fails
MaxChunks == 1
\* exchanges of the conversation a worker is given as its history
MaxExchanges == 2
\* prompt lengths drawn on each side of a point where max_tokens changes
LengthSpread == 8
\* lines (events, response objects) of one response body
MaxLines == 3

\* --------------------------------------------------------------- constants
\* MainWindow.init_ui opens two tabs, "Query 1" and "Query 2"
NumTabs == 2

ENDPOINT_VERTEX_AI == "vertex_ai"
ENDPOINT_AI_STUDIO == "ai_studio"
ENDPOINT_CUSTOM == "custom"
Endpoints == {ENDPOINT_VERTEX_AI, ENDPOINT_AI_STUDIO, ENDPOINT_CUSTOM}

\* Three entries of AVAILABLE_MODELS, one per endpoint_support value that
\* occurs in the registry.
AVAILABLE_MODELS == {"claude-sonnet-4-5", "gemini-2-5-flash", "gemini-3-pro-preview-deep-think"}
\* A model_config that is not in the registry (publisher neither anthropic
\* nor google); APIWorker accepts any model_config.
GENERIC_MODEL == "generic-model"

\* model_config["publisher"]
publisher(model) ==
    CASE model = "claude-sonnet-4-5" -> "anthropic"
      [] model = "gemini-2-5-flash" -> "google"
      [] model = "gemini-3-pro-preview-deep-think" -> "google"
      [] OTHER -> "generic"

\* model_config.get("endpoint_support", [ENDPOINT_VERTEX_AI])
endpoint_support(model) ==
    CASE model = "claude-sonnet-4-5" -> {ENDPOINT_VERTEX_AI}
      [] model = "gemini-2-5-flash" -> {ENDPOINT_VERTEX_AI, ENDPOINT_AI_STUDIO}
      [] model = "gemini-3-pro-preview-deep-think" -> {ENDPOINT_AI_STUDIO}
      [] OTHER -> {ENDPOINT_VERTEX_AI}

\* model_config.get("supports_1m_context")
supports_1m_context(model) == model = "claude-sonnet-4-5"

\* the registry's max_output_tokens of claude-sonnet-4-5
SONNET_MAX_OUTPUT == 64000
\* ... of gemini-2-5-flash
FLASH_MAX_OUTPUT == 65535
\* ... of gemini-3-pro-preview-deep-think
DEEP_THINK_MAX_OUTPUT == 65536
\* the default of model_config.get("max_output_tokens", 4096) in the custom branch
CUSTOM_MAX_OUTPUT == 4096

\* model_config["max_output_tokens"], with the custom branch's default for a
\* model_config without the key
max_output_tokens(model) ==
    CASE model = "claude-sonnet-4-5" -> SONNET_MAX_OUTPUT
      [] model = "gemini-2-5-flash" -> FLASH_MAX_OUTPUT
      [] model = "gemini-3-pro-preview-deep-think" -> DEEP_THINK_MAX_OUTPUT
      [] OTHER -> CUSTOM_MAX_OUTPUT

\* the registry's max_input_tokens and max_input_tokens_extended of
\* claude-sonnet-4-5
SONNET_MAX_INPUT == 200000
SONNET_MAX_INPUT_EXTENDED == 1000000
\* the registry's max_input_tokens of gemini-2-5-flash
FLASH_MAX_INPUT == 1048576
\* ... of gemini-3-pro-preview-deep-think
DEEP_THINK_MAX_INPUT == 2097152

\* model_config["max_input_tokens"] of a model of the registry
max_input_tokens(model) ==
    CASE model = "gemini-2-5-flash" -> FLASH_MAX_INPUT
      [] model = "gemini-3-pro-preview-deep-think" -> DEEP_THINK_MAX_INPUT
      [] OTHER -> SONNET_MAX_INPUT
\* the total build_request_payload keeps input estimate plus output under
\* when the 1M context window is used
CONTEXT_1M == 1000000
\* the least max_tokens the anthropic branch sends
MIN_MAX_TOKENS == 1024
\* characters per token of every estimate of the program
CHARS_PER_TOKEN == 4

Tabs == 1..NumTabs
WorkerIds == 1..MaxWorkers

EmptyText == << >>
\* the prompt typed for the k-th request started: every request has a prompt
\* of its own, 4k characters long
Prompt(k) == [i \in 1..(4 * k) |-> "p"]
\* what iter_content yields: a chunk of body text
BodyChunk == <<"d", "a", "t", "a">>
ChunkVals == {BodyChunk}

CancelledMsg == "Query cancelled by user"
NoApiKeyMsg == "API key required for AI Studio endpoint"
StatusErrorMsg == "API call failed with status 500"
ReadErrorMsg == "Error reading response: read failed"
RefreshErrorMsg == "credential refresh failed"
PostErrorMsg == "connection failed"
BodyErrorMsg == "connection broken"
BuildUrlErrorMsg == "AI Studio endpoint does not support this publisher"
UnknownPublisherMsg == "Unknown publisher"

VARIABLES
    \* ---- APIWorker, one per worker id
    pc,              \* position of run(): "none" (not constructed) .. "done"
    req,             \* the constructor's arguments
    hist,            \* self.history: the tab's list (alias) or a list of its own
    is_cancelled,    \* self._is_cancelled
    status_code,     \* response.status_code (0: no response yet)
    response_text,   \* the local response_text of run()
    chunk,           \* the chunk the loop of run() holds
    payload,         \* the messages/contents list build_request_payload built
    emitted,         \* the finished emissions, in order
    progress,        \* the progress emissions' percentages, in order
    netlog,          \* the network operations started, and "failed" after one failed
    cancelAt,        \* where run() was when cancel() was first called
    \* ---- QueryTab, one per tab
    worker,          \* self.worker (0: None)
    history,         \* self.history
    last_prompt,     \* self.last_prompt
    generate_btn,    \* generate_btn visible (stop_btn is visible iff it is not)
    response_info,   \* the response_info label
    message,         \* the last show_message
    raw_response,    \* self.raw_response
    parsed_response, \* self.parsed_response
    \* ---- MainWindow and the main thread
    chain_mode_enabled, \* self.chain_mode_enabled
    raw_json,        \* the Show Raw JSON checkbox (set on every tab together)
    main_wait,       \* the worker stop_query is blocked on in wait() (0: none)
    inbox            \* finished signals queued for the main thread

workerVars == <<pc, req, hist, is_cancelled, status_code, response_text, chunk, payload,
                emitted, progress, netlog, cancelAt>>
tabVars == <<worker, history, last_prompt, generate_btn, response_info, message,
             raw_response, parsed_response>>
winVars == <<chain_mode_enabled, raw_json, main_wait>>
vars == <<workerVars, tabVars, winVars, inbox>>

\* ---------------------------------------------------------------- helpers
user_turn(text) == [role |-> "user", content |-> text]
assistant_turn(text) == [role |-> "assistant", content |-> text]

\* Python's None, and the line break
None == "None"
NL == "\n"

\* the arguments of an APIWorker: has_file is `file_data is not None`,
\* chain_mode the chain_mode of the generate_response that built it
NoReq == [tab |-> 0, endpoint_type |-> ENDPOINT_VERTEX_AI, model |-> "claude-sonnet-4-5",
          api_key |-> FALSE, custom_url |-> FALSE, prompt |-> EmptyText,
          prompt_rest |-> 0, use_1m_context |-> FALSE, include_thoughts |-> TRUE,
          chain_mode |-> FALSE, has_file |-> FALSE, file_path |-> None, file_data |-> << >>]
NoHist == [alias |-> FALSE, val |-> << >>]
NoCancel == [pc |-> "none", ops |-> 0, text |-> EmptyText]

\* the five arguments of one finished emission
Result(response, error, raw, input_tokens, output_tokens) ==
    [response |-> response, error |-> error, raw_response |-> raw,
     input_tokens |-> input_tokens, output_tokens |-> output_tokens]

\* self.finished.emit("", msg, "", 0, 0)
ErrorResult(msg) == Result(EmptyText, msg, EmptyText, 0, 0)

\* the history list the worker reads: the tab's own list object while the
\* worker aliases it, else the worker's list
WorkerHistory(w) == IF hist[w].alias THEN history[req[w].tab] ELSE hist[w].val

RECURSIVE CountOf(_, _)
CountOf(s, x) ==
    IF s = << >> THEN 0
    ELSE (IF Head(s) = x THEN 1 ELSE 0) + CountOf(Tail(s), x)

\* network operations (refresh, POST, chunk reads, the read of an error
\* body) the worker has started
NetOps(w) == Len(netlog[w]) - CountOf(netlog[w], "failed")

\* len(self.prompt): the characters of the prompt the model writes out, and
\* the count of the characters after them (prompts of millions of
\* characters are not written out)
len_prompt(w) == Len(req[w].prompt) + req[w].prompt_rest

\* ------------------------------------------------------ APIWorker: pure parts
\* APIWorker.build_url raises ValueError for AI Studio and a non-google publisher
build_url_raises(w) ==
    /\ req[w].endpoint_type = ENDPOINT_AI_STUDIO
    /\ publisher(req[w].model) # "google"

\* APIWorker.build_url where it does not raise: the custom endpoint returns
\* self.custom_url as it was given ("" when none was), the others the URL of
\* the Google service
build_url(w) ==
    CASE req[w].endpoint_type = ENDPOINT_CUSTOM ->
            IF req[w].custom_url THEN "custom_url" ELSE ""
      [] req[w].endpoint_type = ENDPOINT_AI_STUDIO -> "AI_STUDIO_ENDPOINT"
      [] OTHER -> "VERTEX_AI_ENDPOINT"

\* the value self.api_key holds: the key given, or nothing
api_key_value(w) == IF req[w].api_key THEN "api_key" ELSE ""

\* the anthropic-beta header of run(), where it is set (no memory tool)
beta_headers(w) ==
    IF req[w].use_1m_context /\ supports_1m_context(req[w].model)
    THEN "anthropic-beta" :> "context-1m-2025-08-07"
    ELSE << >>

\* the headers run() sends with the POST: the API key header on AI Studio,
\* the bearer token of get_access_token on every other endpoint
headers_bearer(w) ==
    ("Authorization" :> "Bearer access_token" @@ "Content-Type" :> "application/json")
        @@ beta_headers(w)
headers(w) ==
    (IF req[w].endpoint_type = ENDPOINT_AI_STUDIO
     THEN "Content-Type" :> "application/json" @@ "x-goog-api-key" :> api_key_value(w)
     ELSE "Authorization" :> "Bearer access_token" @@ "Content-Type" :> "application/json")
        @@ beta_headers(w)

\* history turns as the anthropic and the custom branch copy them
copy_turns(h) == [i \in 1..Len(h) |-> [role |-> h[i].role, content |-> h[i].content]]

\* history turns as the google branch copies them: assistant becomes model
google_turns_same_role(h) ==
    [i \in 1..Len(h) |-> [role |-> h[i].role, parts |-> <<[text |-> h[i].content]>>]]
google_turns(h) ==
    [i \in 1..Len(h) |->
        [role |-> IF h[i].role = "assistant" THEN "model" ELSE "user",
         parts |-> <<[text |-> h[i].content]>>]]

\* APIWorker.build_request_payload raises ValueError for an unknown publisher
\* outside the custom endpoint
build_request_payload_raises(w) ==
    /\ publisher(req[w].model) \notin {"anthropic", "google"}
    /\ req[w].endpoint_type # ENDPOINT_CUSTOM

\* min and max of Python
min(a, b) == IF a <= b THEN a ELSE b
max(a, b) == IF a >= b THEN a ELSE b

\* the anthropic branch's max_output for a model, the 1M context flag and
\* len(self.prompt)
max_output(model, use_1m, len) ==
    IF use_1m /\ supports_1m_context(model)
    THEN min(max_output_tokens(model), CONTEXT_1M - (len \div CHARS_PER_TOKEN))
    ELSE max_output_tokens(model)

\* payload["max_tokens"] of the anthropic branch
anthropic_max_tokens(model, use_1m, len) ==
    max(MIN_MAX_TOKENS, max_output(model, use_1m, len))

\* the branch of build_request_payload that builds the body: the publisher
\* is tested first, the custom endpoint only after it
payload_branch(w) ==
    CASE publisher(req[w].model) = "anthropic" -> "anthropic"
      [] publisher(req[w].model) = "google" -> "google"
      [] OTHER -> "openai"

\* ---- the attachment: file_path is a name or None, file_data a sequence of
\* bytes (integers 0..255)
\* mimetypes.guess_type(file_path)[0] for the file names of the model
guess_type(file_path) ==
    CASE file_path = "photo.png" -> "image/png"
      [] file_path = "paper.pdf" -> "application/pdf"
      [] file_path = "notes.txt" -> "text/plain"
      [] OTHER -> None

\* mime_type = guess_type(self.file_path)[0] if self.file_path else
\* "application/octet-stream"
mime_type(w) ==
    IF req[w].file_path # None THEN guess_type(req[w].file_path)
    ELSE "application/octet-stream"

\* mime_type and mime_type.startswith("image/")
is_image(mime) == mime \in {"image/png"}

\* if self.file_data: None and b"" are both false
file_present(w) == req[w].has_file /\ req[w].file_data # << >>

\* bytes.decode('utf-8') returns: every byte is ASCII or belongs to a
\* two-byte sequence (longer sequences are not among the data of the model)
RECURSIVE utf8_decodes(_)
utf8_decodes(b) ==
    IF b = << >> THEN TRUE
    ELSE IF b[1] < 128 THEN utf8_decodes(Tail(b))
    ELSE IF b[1] \in 194..223 /\ Len(b) >= 2 /\ b[2] \in 128..191
    THEN utf8_decodes(Tail(Tail(b)))
    ELSE FALSE

\* the character of a code point
chr(c) ==
    CASE c = 104 -> "h"
      [] c = 105 -> "i"
      [] c = 233 -> "e-acute"
      [] OTHER -> ToString(c)

\* bytes.decode('utf-8') of bytes for which it returns
RECURSIVE utf8_decode(_)
utf8_decode(b) ==
    IF b = << >> THEN << >>
    ELSE IF b[1] < 128 THEN <<chr(b[1])>> \o utf8_decode(Tail(b))
    ELSE <<chr((b[1] - 192) * 64 + (b[2] - 128))>> \o utf8_decode(Tail(Tail(b)))

\* base64.b64encode(data).decode('utf-8'): the six-bit digits of the
\* encoding, the padding character "=" written as 64
RECURSIVE b64encode(_)
b64encode(b) ==
    IF b = << >> THEN << >>
    ELSE IF Len(b) = 1
    THEN <<b[1] \div 4, (b[1] % 4) * 16, 64, 64>>
    ELSE IF Len(b) = 2
    THEN <<b[1] \div 4, (b[1] % 4) * 16 + (b[2] \div 16), (b[2] % 16) * 4, 64>>
    ELSE <<b[1] \div 4, (b[1] % 4) * 16 + (b[2] \div 16),
           (b[2] % 16) * 4 + (b[3] \div 64), b[3] % 64>>
         \o b64encode(SubSeq(b, 4, Len(b)))

\* f"[File: {self.file_path}]\n{text_content}\n[End of file]"
file_text(w) ==
    <<"[File: ", req[w].file_path, "]", NL>> \o utf8_decode(req[w].file_data)
        \o <<NL, "[End of file]">>

\* {"type": "base64", "media_type": mime_type, "data": ...}
base64_source(w) ==
    [type |-> "base64", media_type |-> mime_type(w), data |-> b64encode(req[w].file_data)]

\* what the anthropic branch puts into content before the prompt
anthropic_file_blocks(w) ==
    IF ~file_present(w) THEN << >>
    ELSE IF is_image(mime_type(w))
    THEN <<[type |-> "image", source |-> base64_source(w)]>>
    ELSE IF mime_type(w) = "application/pdf"
    THEN <<[type |-> "document", source |-> base64_source(w)]>>
    ELSE IF utf8_decodes(req[w].file_data)
    THEN <<[type |-> "text", text |-> file_text(w)]>>
    ELSE <<[type |-> "document", source |-> base64_source(w)]>>

\* what the google branch puts into parts before the prompt
google_file_parts(w) ==
    IF ~file_present(w) THEN << >>
    ELSE IF is_image(mime_type(w))
    THEN <<[inline_data |-> [mime_type |-> mime_type(w),
                             data |-> b64encode(req[w].file_data)]]>>
    ELSE IF utf8_decodes(req[w].file_data)
    THEN <<[text |-> file_text(w)]>>
    ELSE <<[inline_data |-> [mime_type |-> mime_type(w),
                             data |-> b64encode(req[w].file_data)]]>>

\* APIWorker.build_request_payload (no memory, thinking level or
\* grounding): the branch that built the body, the keys of the body, its
\* messages/contents list (history first, the current user turn last) and
\* its max_tokens / generationConfig.maxOutputTokens
build_request_payload(w) ==
    CASE payload_branch(w) = "anthropic" ->
            [kind |-> "anthropic",
             keys |-> {"anthropic_version", "messages", "max_tokens", "stream"},
             messages |-> copy_turns(WorkerHistory(w)) \o
                 <<[role |-> "user",
                    content |-> anthropic_file_blocks(w) \o
                                    <<[type |-> "text", text |-> req[w].prompt]>>]>>,
             max_tokens |-> anthropic_max_tokens(req[w].model, req[w].use_1m_context,
                                                 len_prompt(w))]
      [] payload_branch(w) = "google" ->
            [kind |-> "google",
             keys |-> {"contents", "generationConfig"},
             messages |-> google_turns(WorkerHistory(w)) \o
                 <<[role |-> "user",
                    parts |-> google_file_parts(w) \o <<[text |-> req[w].prompt]>>]>>,
             max_tokens |-> max_output_tokens(req[w].model)]
      [] OTHER ->
            [kind |-> "openai",
             keys |-> {"model", "messages", "stream", "max_tokens"},
             messages |-> copy_turns(WorkerHistory(w)) \o
                 <<[role |-> "user", content |-> req[w].prompt]>>,
             max_tokens |-> max_output_tokens(req[w].model)]

NoPayload == [kind |-> "none", keys |-> {}, messages |-> << >>, max_tokens |-> 0]

\* ------------------------------------------------- APIWorker: the parsers
\* A response body (response_text) is a sequence of tokens: characters, the line break, the
\* "data: " prefix of a server-sent event, punctuation of a JSON array, and
\* JSON documents, each written as one token and decoded by json_loads.
DATA == "data: "
DONE == "[DONE]"
Whitespace == {NL, " "}

\* the value of a failed json.loads, and {} / []
JSONDecodeError == [error |-> "JSONDecodeError"]
EmptyDict == << >>

\* json.loads raised for this value
raised(v) == "error" \in DOMAIN v

\* dict.get(key, default)
get(d, key, default) == IF key \in DOMAIN d THEN d[key] ELSE default

\* JSON documents of an Anthropic stream
CBS_TEXT_A == "{content_block_start text A}"
DELTA_TEXT_B == "{content_block_delta text_delta B}"
CBS_TOOL_USE == "{content_block_start tool_use memory}"
DELTA_INPUT_JSON == "{content_block_delta input_json_delta {\"command\": \"view\"}}"
MESSAGE_STOP == "{message_stop}"
\* a line that is not JSON
MALFORMED == "{oops"
\* a JSON document that is not an object
NULL == "null"
\* its decoded value: it has no method get
JsonNull == [null |-> TRUE]
has_get(v) == "null" \notin DOMAIN v

\* JSON documents of a Google stream
G_TEXT_A == "{parts: text A}"
G_THOUGHT_T == "{parts: thought T}"
G_THOUGHT_U_TEXT_B == "{parts: thought U, text B}"
G_THOUGHT_BLANK == "{parts: thought ' '}"
G_SOURCES_1_2 == "{parts: text C, grounding: u1, u2}"
G_SOURCES_1_1 == "{grounding: u1, u1}"
G_SOURCES_2_1 == "{grounding: u2, u1}"

\* a groundingChunks entry
web(title, uri) == [web |-> [title |-> title, uri |-> uri]]
\* a response object of a Google stream with one candidate
candidate(parts, chunks) ==
    [candidates |-> <<[content |-> [parts |-> parts],
                       groundingMetadata |-> [groundingChunks |-> chunks]]>>]

\* json.loads of one token
json_loads(tok) ==
    CASE tok = CBS_TEXT_A ->
            [type |-> "content_block_start",
             content_block |-> [type |-> "text", text |-> <<"A">>]]
      [] tok = DELTA_TEXT_B ->
            [type |-> "content_block_delta",
             delta |-> [type |-> "text_delta", text |-> <<"B">>]]
      [] tok = CBS_TOOL_USE ->
            [type |-> "content_block_start",
             content_block |-> [type |-> "tool_use", name |-> "memory"]]
      [] tok = DELTA_INPUT_JSON ->
            [type |-> "content_block_delta",
             delta |-> [type |-> "input_json_delta", partial_json |-> "command"]]
      [] tok = MESSAGE_STOP -> [type |-> "message_stop"]
      [] tok = G_TEXT_A -> candidate(<<[text |-> <<"A">>]>>, << >>)
      [] tok = G_THOUGHT_T -> candidate(<<[thought |-> TRUE, text |-> <<"T">>]>>, << >>)
      [] tok = G_THOUGHT_U_TEXT_B ->
            candidate(<<[thought |-> TRUE, text |-> <<"U">>], [text |-> <<"B">>]>>, << >>)
      [] tok = G_THOUGHT_BLANK ->
            candidate(<<[thought |-> TRUE, text |-> <<" ">>]>>, << >>)
      [] tok = G_SOURCES_1_2 ->
            candidate(<<[text |-> <<"C">>]>>, <<web("t1", "u1"), web("t2", "u2")>>)
      [] tok = G_SOURCES_1_1 ->
            candidate(<< >>, <<web("t1", "u1"), web("t1b", "u1")>>)
      [] tok = G_SOURCES_2_1 ->
            candidate(<< >>, <<web("t2", "u2"), web("t1", "u1")>>)
      [] tok = NULL -> JsonNull
      [] OTHER -> JSONDecodeError

\* json.loads of a string that is one line (or the stripped rest of one)
json_loads_str(str) ==
    IF Len(str) = 1 THEN json_loads(str[1]) ELSE JSONDecodeError

\* str.split('\n')
RECURSIVE split(_)
split(text) ==
    IF \A i \in 1..Len(text) : text[i] # NL THEN <<text>>
    ELSE LET i == CHOOSE j \in 1..Len(text) :
                      text[j] = NL /\ \A k \in 1..(j - 1) : text[k] # NL
         IN <<SubSeq(text, 1, i - 1)>> \o split(SubSeq(text, i + 1, Len(text)))

\* str.strip()
RECURSIVE strip(_)
strip(str) ==
    IF str = << >> THEN str
    ELSE IF Head(str) \in Whitespace THEN strip(Tail(str))
    ELSE IF str[Len(str)] \in Whitespace THEN strip(SubSeq(str, 1, Len(str) - 1))
    ELSE str

\* the concatenation of a list of strings (or of lists)
RECURSIVE concat(_)
concat(ss) == IF ss = << >> THEN << >> ELSE Head(ss) \o concat(Tail(ss))

\* what one line of the stream adds to full_text in parse_anthropic_stream
anthropic_line_all(line) ==
    IF line # << >> /\ Head(line) = DATA /\ Len(line) = 2 THEN <<line[2]>> ELSE << >>
anthropic_line(line) ==
    IF line # << >> /\ Head(line) = DATA
    THEN LET data_str == strip(Tail(line))
         IN IF data_str # << >> /\ data_str # <<DONE>>
            THEN LET data == json_loads_str(data_str)
                 IN IF raised(data) THEN << >>
                    ELSE IF get(data, "type", None) = "content_block_delta"
                    THEN LET delta == get(data, "delta", EmptyDict)
                         IN IF get(delta, "type", None) = "text_delta"
                            THEN get(delta, "text", << >>)
                            ELSE << >>
                    ELSE IF get(data, "type", None) = "content_block_start"
                    THEN LET content_block == get(data, "content_block", EmptyDict)
                         IN IF get(content_block, "type", None) = "text"
                            THEN get(content_block, "text", << >>)
                            ELSE << >>
                    ELSE << >>
            ELSE << >>
    ELSE << >>

\* APIWorker.parse_anthropic_stream
parse_anthropic_stream(body) ==
    LET lines == split(body)
    IN concat([i \in 1..Len(lines) |-> anthropic_line(lines[i])])

\* the section headers of parse_google_stream (each with its line break; the
\* pictographs of the headers are left out) and the rule "=" * 50 + "\n"
THINKING_HEADER == "DEEP THINKING PROCESS\n"
SOURCES_HEADER == "SEARCH SOURCES\n"
ANSWER_HEADER == "FINAL ANSWER\n"
RULE == "==================================================\n"

\* extract_content_from_data: the thoughts, the text and the sources of one
\* response object
extract_content_from_data(data) ==
    LET candidates == get(data, "candidates", << >>)
    IN IF candidates = << >>
       THEN [thoughts |-> << >>, text |-> << >>, sources |-> << >>]
       ELSE LET cand == candidates[1]
                content == get(cand, "content", EmptyDict)
                parts == get(content, "parts", << >>)
                grounding == get(cand, "groundingMetadata", EmptyDict)
                chunks == IF DOMAIN grounding # {}
                          THEN get(grounding, "groundingChunks", << >>)
                          ELSE << >>
            IN [thoughts |->
                    concat([i \in 1..Len(parts) |->
                               IF get(parts[i], "thought", FALSE)
                               THEN get(parts[i], "text", << >>) \o <<NL>>
                               ELSE << >>]),
                text |->
                    concat([i \in 1..Len(parts) |->
                               IF get(parts[i], "thought", FALSE) THEN << >>
                               ELSE IF "text" \in DOMAIN parts[i] THEN parts[i].text
                               ELSE << >>]),
                sources |->
                    concat([i \in 1..Len(chunks) |->
                               LET w == get(chunks[i], "web", EmptyDict)
                               IN IF DOMAIN w # {}
                                  THEN <<[title |-> get(w, "title", "Source"),
                                          uri |-> get(w, "uri", "#")]>>
                                  ELSE << >>])]

\* json.loads of a whole body as a JSON array: "[", documents separated by
\* ",", "]", with any white space between them; a value with the list of
\* the documents' values, or JSONDecodeError
json_loads_array(text) ==
    LET toks == SelectSeq(text, LAMBDA t : t \notin Whitespace)
        n == Len(toks)
    IN IF /\ n >= 2
          /\ toks[1] = "["
          /\ toks[n] = "]"
          /\ n = 2 \/ n % 2 = 1
          /\ \A i \in 2..(n - 1) :
                IF i % 2 = 0 THEN ~raised(json_loads(toks[i]))
                ELSE toks[i] = ","
       THEN [list |-> [i \in 1..((n - 1) \div 2) |-> json_loads(toks[2 * i])]]
       ELSE JSONDecodeError

\* the response objects parse_google_stream reads from a body
google_objects(body) ==
    LET stripped == [i \in 1..Len(split(body)) |-> strip(split(body)[i])]
        lines == SelectSeq(stripped, LAMBDA l : l # << >> /\ l # <<",">>)
        unquoted == [i \in 1..Len(lines) |->
                        IF lines[i][Len(lines[i])] = ","
                        THEN SubSeq(lines[i], 1, Len(lines[i]) - 1)
                        ELSE lines[i]]
    IN IF strip(body) # << >> /\ Head(strip(body)) = "["
       THEN IF raised(json_loads_array(body))
            THEN << >>
            ELSE json_loads_array(body).list
       ELSE SelectSeq([i \in 1..Len(unquoted) |-> json_loads_str(unquoted[i])],
                      LAMBDA d : ~raised(d))

\* the entries of the sources section: one per URI not seen before, numbered
\* by the count of URIs seen
RECURSIVE source_entries(_, _)
source_entries_all(sources, seen_uris) ==
    concat([i \in 1..Len(sources) |->
               <<"[", ToString(i), "] ", sources[i].title, " (", sources[i].uri, ")", NL>>])
source_entries(sources, seen_uris) ==
    IF sources = << >> THEN << >>
    ELSE LET source == Head(sources)
         IN IF source.uri \notin seen_uris
            THEN <<"[", ToString(Cardinality(seen_uris) + 1), "] ", source.title,
                   " (", source.uri, ")", NL>>
                 \o source_entries(Tail(sources), seen_uris \cup {source.uri})
            ELSE source_entries(Tail(sources), seen_uris)

\* the formatted output of parse_google_stream for the accumulated thoughts,
\* text and sources
format_sections_always(thoughts_text, full_text, grounding_sources, include_thoughts) ==
    <<THINKING_HEADER, RULE>> \o strip(thoughts_text) \o <<NL, NL>>
        \o <<SOURCES_HEADER, RULE>> \o source_entries(grounding_sources, {}) \o <<NL>>
        \o <<ANSWER_HEADER, RULE>> \o strip(full_text)
format_sections(thoughts_text, full_text, grounding_sources, include_thoughts) ==
    LET thinking == IF strip(thoughts_text) # << >> /\ include_thoughts
                    THEN <<THINKING_HEADER, RULE>> \o strip(thoughts_text) \o <<NL, NL>>
                    ELSE << >>
        sourced == IF grounding_sources # << >>
                   THEN thinking \o <<SOURCES_HEADER, RULE>>
                        \o source_entries(grounding_sources, {}) \o <<NL>>
                   ELSE thinking
        headed == IF sourced # << >> THEN sourced \o <<ANSWER_HEADER, RULE>> ELSE sourced
    IN headed \o strip(full_text)

\* APIWorker.parse_google_stream
parse_google_stream(body, include_thoughts) ==
    LET objects == google_objects(body)
        extracted == [i \in 1..Len(objects) |-> extract_content_from_data(objects[i])]
    IN format_sections(concat([i \in 1..Len(extracted) |-> extracted[i].thoughts]),
                       concat([i \in 1..Len(extracted) |-> extracted[i].text]),
                       concat([i \in 1..Len(extracted) |-> extracted[i].sources]),
                       include_thoughts)

\* parse_anthropic_stream raises AttributeError: data.get on the decoded
\* payload of a data line that is not an object (only JSONDecodeError is
\* caught in the loop)
anthropic_stream_raises(body) ==
    \E i \in 1..Len(split(body)) :
        LET line == split(body)[i]
        IN /\ line # << >>
           /\ Head(line) = DATA
           /\ strip(Tail(line)) \notin {<< >>, <<DONE>>}
           /\ ~raised(json_loads_str(strip(Tail(line))))
           /\ ~has_get(json_loads_str(strip(Tail(line))))

\* parse_google_stream raises AttributeError: extract_content_from_data on a
\* decoded element or line that is not an object
google_stream_raises(body) ==
    \E i \in 1..Len(google_objects(body)) : ~has_get(google_objects(body)[i])

\* str(e) of that AttributeError, and the text parse_response returns for it
\* (the raw response is cut at 1000 characters, more than a body here has)
ATTRIBUTE_ERROR == "'NoneType' object has no attribute 'get'"
error_parsing_response(body) ==
    <<"Error parsing response: ", ATTRIBUTE_ERROR, NL, NL, "Raw response:", NL>> \o body

\* APIWorker.parse_response (response_data is not passed by run()): the
\* parsed text, or the raw text when the publisher's parser yields nothing
parse_response_raw(model, include_thoughts, body) == body
parse_response(model, include_thoughts, body) ==
    CASE publisher(model) = "anthropic" ->
            IF \E i \in 1..Len(body) : body[i] = DATA
            THEN IF anthropic_stream_raises(body)
                 THEN error_parsing_response(body)
                 ELSE IF parse_anthropic_stream(body) # << >>
                 THEN parse_anthropic_stream(body)
                 ELSE body
            ELSE body
      [] publisher(model) = "google" ->
            IF google_stream_raises(body)
            THEN error_parsing_response(body)
            ELSE IF parse_google_stream(body, include_thoughts) # << >>
            THEN parse_google_stream(body, include_thoughts)
            ELSE body
      [] OTHER -> body

\* APIWorker.cancel, called on worker w: the new _is_cancelled of every worker
cancel_all(w) == [v \in WorkerIds |-> TRUE]
cancel(w) == [is_cancelled EXCEPT ![w] = TRUE]

\* ------------------------------------------------- APIWorker.run: its steps
\* self.finished.emit(...) followed by the return of run()
Finish(w, result) ==
    /\ emitted' = [emitted EXCEPT ![w] = Append(@, result)]
    /\ inbox' = Append(inbox, [w |-> w, result |-> result])
    /\ pc' = [pc EXCEPT ![w] = "done"]

\* a cancellation check that finds the flag set
EmitCancelled(w) == Finish(w, ErrorResult(CancelledMsg))

\* the handler of run()'s outer try: except Exception as e
WorkerRaise_swallow(w, msg) ==
    /\ pc' = [pc EXCEPT ![w] = "done"]
    /\ UNCHANGED <<emitted, inbox>>
WorkerRaise(w, msg) == Finish(w, ErrorResult(msg))

\* the handler of the chunk loop's try
ReadError_partial(w) ==
    Finish(w, Result(EmptyText, ReadErrorMsg, response_text[w], 0, 0))
ReadError(w) == Finish(w, ErrorResult(ReadErrorMsg))

\* if self._is_cancelled: emit, return   (first statement of run)
RunStart(w) ==
    /\ pc[w] = "start"
    /\ IF is_cancelled[w]
       THEN EmitCancelled(w)
       ELSE /\ pc' = [pc EXCEPT ![w] = "auth"]
            /\ UNCHANGED <<emitted, inbox>>
    /\ UNCHANGED <<req, hist, is_cancelled, status_code, response_text, chunk, payload,
                   progress, netlog, cancelAt, tabVars, winVars>>

\* progress 20; AI Studio: the API key check; otherwise get_access_token
\* starts credentials.refresh
Auth(w) ==
    /\ pc[w] = "auth"
    /\ progress' = [progress EXCEPT ![w] = Append(@, 20)]
    /\ IF req[w].endpoint_type = ENDPOINT_AI_STUDIO
       THEN /\ IF ~req[w].api_key
               THEN Finish(w, ErrorResult(NoApiKeyMsg))
               ELSE /\ pc' = [pc EXCEPT ![w] = "check_auth"]
                    /\ UNCHANGED <<emitted, inbox>>
            /\ UNCHANGED netlog
       ELSE /\ netlog' = [netlog EXCEPT ![w] = Append(@, "refresh")]
            /\ pc' = [pc EXCEPT ![w] = "refresh"]
            /\ UNCHANGED <<emitted, inbox>>
    /\ UNCHANGED <<req, hist, is_cancelled, status_code, response_text, chunk, payload,
                   cancelAt, tabVars, winVars>>

\* credentials.refresh returns, or raises
RefreshReturn_retry(w) ==
    /\ pc[w] = "refresh"
    /\ \E ok \in BOOLEAN :
         IF ok
         THEN /\ pc' = [pc EXCEPT ![w] = "check_auth"]
              /\ UNCHANGED <<emitted, inbox, netlog>>
         ELSE IF CountOf(netlog[w], "refresh") < 2
              THEN /\ netlog' = [netlog EXCEPT ![w] = @ \o <<"failed", "refresh">>]
                   /\ UNCHANGED <<pc, emitted, inbox>>
              ELSE /\ netlog' = [netlog EXCEPT ![w] = Append(@, "failed")]
                   /\ WorkerRaise(w, RefreshErrorMsg)
    /\ UNCHANGED <<req, hist, is_cancelled, status_code, response_text, chunk, payload,
                   progress, cancelAt, tabVars, winVars>>
RefreshReturn(w) ==
    /\ pc[w] = "refresh"
    /\ \E ok \in BOOLEAN :
         IF ok
         THEN /\ pc' = [pc EXCEPT ![w] = "check_auth"]
              /\ UNCHANGED <<emitted, inbox, netlog>>
         ELSE /\ netlog' = [netlog EXCEPT ![w] = Append(@, "failed")]
              /\ WorkerRaise(w, RefreshErrorMsg)
    /\ UNCHANGED <<req, hist, is_cancelled, status_code, response_text, chunk, payload,
                   progress, cancelAt, tabVars, winVars>>

\* the check after authentication
CheckAuth(w) ==
    /\ pc[w] = "check_auth"
    /\ IF is_cancelled[w]
       THEN EmitCancelled(w)
       ELSE /\ pc' = [pc EXCEPT ![w] = "build"]
            /\ UNCHANGED <<emitted, inbox>>
    /\ UNCHANGED <<req, hist, is_cancelled, status_code, response_text, chunk, payload,
                   progress, netlog, cancelAt, tabVars, winVars>>

\* build_url, build_request_payload, the headers
Build_appends(w) ==
    /\ pc[w] = "build"
    /\ IF build_url_raises(w)
       THEN WorkerRaise(w, BuildUrlErrorMsg) /\ UNCHANGED <<payload, hist, history>>
       ELSE IF build_request_payload_raises(w)
       THEN WorkerRaise(w, UnknownPublisherMsg) /\ UNCHANGED <<payload, hist, history>>
       ELSE /\ payload' = [payload EXCEPT ![w] = build_request_payload(w)]
            /\ IF hist[w].alias
               THEN /\ history' = [history EXCEPT ![req[w].tab] =
                                      Append(@, user_turn(req[w].prompt))]
                    /\ UNCHANGED hist
               ELSE /\ hist' = [hist EXCEPT ![w].val =
                                      Append(@, user_turn(req[w].prompt))]
                    /\ UNCHANGED history
            /\ pc' = [pc EXCEPT ![w] = "check_build"]
            /\ UNCHANGED <<emitted, inbox>>
    /\ UNCHANGED <<req, is_cancelled, status_code, response_text, chunk,
                   progress, netlog, cancelAt, worker, last_prompt, generate_btn,
                   response_info, message, raw_response, parsed_response, winVars>>
Build(w) ==
    /\ pc[w] = "build"
    /\ IF build_url_raises(w)
       THEN WorkerRaise(w, BuildUrlErrorMsg) /\ UNCHANGED payload
       ELSE IF build_request_payload_raises(w)
       THEN WorkerRaise(w, UnknownPublisherMsg) /\ UNCHANGED payload
       ELSE /\ payload' = [payload EXCEPT ![w] = build_request_payload(w)]
            /\ pc' = [pc EXCEPT ![w] = "check_build"]
            /\ UNCHANGED <<emitted, inbox>>
    /\ UNCHANGED <<req, hist, is_cancelled, status_code, response_text, chunk,
                   progress, netlog, cancelAt, tabVars, winVars>>

\* the check before sending; progress 50; requests.post starts (a custom
\* endpoint without a URL makes requests.post raise before any I/O)
CheckBuild(w) ==
    /\ pc[w] = "check_build"
    /\ IF is_cancelled[w]
       THEN EmitCancelled(w) /\ UNCHANGED <<progress, netlog>>
       ELSE /\ progress' = [progress EXCEPT ![w] = Append(@, 50)]
            /\ IF req[w].endpoint_type = ENDPOINT_CUSTOM /\ ~req[w].custom_url
               THEN WorkerRaise(w, PostErrorMsg) /\ UNCHANGED netlog
               ELSE /\ netlog' = [netlog EXCEPT ![w] = Append(@, "post")]
                    /\ pc' = [pc EXCEPT ![w] = "post"]
                    /\ UNCHANGED <<emitted, inbox>>
    /\ UNCHANGED <<req, hist, is_cancelled, status_code, response_text, chunk, payload,
                   cancelAt, tabVars, winVars>>

\* requests.post returns a response, or raises (connection failure, timeout)
PostReturn(w) ==
    /\ pc[w] = "post"
    /\ \E outcome \in {200, 500, 0} :
         IF outcome = 0
         THEN /\ netlog' = [netlog EXCEPT ![w] = Append(@, "failed")]
              /\ WorkerRaise(w, PostErrorMsg)
              /\ UNCHANGED status_code
         ELSE /\ status_code' = [status_code EXCEPT ![w] = outcome]
              /\ pc' = [pc EXCEPT ![w] = "check_post"]
              /\ UNCHANGED <<emitted, inbox, netlog>>
    /\ UNCHANGED <<req, hist, is_cancelled, response_text, chunk, payload,
                   progress, cancelAt, tabVars, winVars>>

\* the check after the POST
CheckPost_skipped(w) ==
    /\ pc[w] = "check_post"
    /\ pc' = [pc EXCEPT ![w] = "status"]
    /\ UNCHANGED <<emitted, inbox>>
    /\ UNCHANGED <<req, hist, is_cancelled, status_code, response_text, chunk, payload,
                   progress, netlog, cancelAt, tabVars, winVars>>
CheckPost(w) ==
    /\ pc[w] = "check_post"
    /\ IF is_cancelled[w]
       THEN EmitCancelled(w)
       ELSE /\ pc' = [pc EXCEPT ![w] = "status"]
            /\ UNCHANGED <<emitted, inbox>>
    /\ UNCHANGED <<req, hist, is_cancelled, status_code, response_text, chunk, payload,
                   progress, netlog, cancelAt, tabVars, winVars>>

\* if response.status_code != 200: response.text reads the body of the
\* streamed response for the error message (the read may raise), then the
\* error is emitted; else progress 80 and the chunk loop starts waiting for
\* the first chunk
Status_complete(w) ==
    /\ pc[w] = "status"
    /\ IF status_code[w] # 200
       THEN /\ \E ok \in BOOLEAN :
                 IF ok
                 THEN /\ netlog' = [netlog EXCEPT ![w] = Append(@, "body")]
                      /\ Finish(w, ErrorResult(StatusErrorMsg))
                 ELSE /\ netlog' = [netlog EXCEPT ![w] = @ \o <<"body", "failed">>]
                      /\ WorkerRaise(w, BodyErrorMsg)
            /\ UNCHANGED progress
       ELSE /\ progress' = [progress EXCEPT ![w] = Append(@, 100)]
            /\ netlog' = [netlog EXCEPT ![w] = Append(@, "read")]
            /\ pc' = [pc EXCEPT ![w] = "read"]
            /\ UNCHANGED <<emitted, inbox>>
    /\ UNCHANGED <<req, hist, is_cancelled, status_code, response_text, chunk, payload,
                   cancelAt, tabVars, winVars>>
Status(w) ==
    /\ pc[w] = "status"
    /\ IF status_code[w] # 200
       THEN /\ \E ok \in BOOLEAN :
                 IF ok
                 THEN /\ netlog' = [netlog EXCEPT ![w] = Append(@, "body")]
                      /\ Finish(w, ErrorResult(StatusErrorMsg))
                 ELSE /\ netlog' = [netlog EXCEPT ![w] = @ \o <<"body", "failed">>]
                      /\ WorkerRaise(w, BodyErrorMsg)
            /\ UNCHANGED progress
       ELSE /\ progress' = [progress EXCEPT ![w] = Append(@, 80)]
            /\ netlog' = [netlog EXCEPT ![w] = Append(@, "read")]
            /\ pc' = [pc EXCEPT ![w] = "read"]
            /\ UNCHANGED <<emitted, inbox>>
    /\ UNCHANGED <<req, hist, is_cancelled, status_code, response_text, chunk, payload,
                   cancelAt, tabVars, winVars>>

\* iter_content yields the next chunk, ends, or raises
ReadReturn(w) ==
    /\ pc[w] = "read"
    /\ \/ \E c \in ChunkVals :
            /\ CountOf(netlog[w], "read") <= MaxChunks
            /\ chunk' = [chunk EXCEPT ![w] = c]
            /\ pc' = [pc EXCEPT ![w] = "check_chunk"]
            /\ UNCHANGED <<emitted, inbox, netlog>>
       \/ /\ pc' = [pc EXCEPT ![w] = "check_stream"]
          /\ UNCHANGED <<emitted, inbox, netlog, chunk>>
       \/ /\ netlog' = [netlog EXCEPT ![w] = Append(@, "failed")]
          /\ ReadError(w)
          /\ UNCHANGED chunk
    /\ UNCHANGED <<req, hist, is_cancelled, status_code, response_text, payload,
                   progress, cancelAt, tabVars, winVars>>

\* the loop body: the check, then response_text += chunk, then the loop
\* waits for the next chunk
CheckChunk(w) ==
    /\ pc[w] = "check_chunk"
    /\ IF is_cancelled[w]
       THEN EmitCancelled(w) /\ UNCHANGED <<response_text, netlog>>
       ELSE /\ response_text' = [response_text EXCEPT ![w] =
                                   IF chunk[w] # EmptyText THEN @ \o chunk[w] ELSE @]
            /\ netlog' = [netlog EXCEPT ![w] = Append(@, "read")]
            /\ pc' = [pc EXCEPT ![w] = "read"]
            /\ UNCHANGED <<emitted, inbox>>
    /\ UNCHANGED <<req, hist, is_cancelled, status_code, chunk, payload,
                   progress, cancelAt, tabVars, winVars>>

\* the check after the loop
CheckStream(w) ==
    /\ pc[w] = "check_stream"
    /\ IF is_cancelled[w]
       THEN EmitCancelled(w)
       ELSE /\ pc' = [pc EXCEPT ![w] = "parse"]
            /\ UNCHANGED <<emitted, inbox>>
    /\ UNCHANGED <<req, hist, is_cancelled, status_code, response_text, chunk, payload,
                   progress, netlog, cancelAt, tabVars, winVars>>

\* parse_response, the token estimates, progress 100, the success emission
Parse(w) ==
    /\ pc[w] = "parse"
    /\ LET parsed == parse_response(req[w].model, req[w].include_thoughts,
                                   response_text[w])
       IN Finish(w, Result(parsed, "", response_text[w],
                           len_prompt(w) \div CHARS_PER_TOKEN,
                           Len(parsed) \div CHARS_PER_TOKEN))
    /\ progress' = [progress EXCEPT ![w] = Append(@, 100)]
    /\ UNCHANGED <<req, hist, is_cancelled, status_code, response_text, chunk, payload,
                   netlog, cancelAt, tabVars, winVars>>

\* the first cancel() of a worker records where run() was
NoteCancel(w) ==
    cancelAt' = [cancelAt EXCEPT ![w] =
                    IF @.pc = "none"
                    THEN [pc |-> pc[w], ops |-> NetOps(w), text |-> response_text[w]]
                    ELSE @]

\* cancel() called on a constructed worker whose run() has not returned
CancelCall(w) ==
    /\ pc[w] \notin {"none", "done"}
    /\ ~is_cancelled[w]
    /\ is_cancelled' = cancel(w)
    /\ NoteCancel(w)
    /\ UNCHANGED <<pc, req, hist, status_code, response_text, chunk, payload, emitted,
                   progress, netlog, tabVars, winVars, inbox>>

\* ------------------------------------------------ QueryTab.generate_response
\* what the user has typed and selected on a tab when generate_response reads it
Input(p, e, m, k, u) ==
    [has_prompt |-> p, endpoint_type |-> e, model |-> m, api_key |-> k, custom_url |-> u]

\* the endpoint, model, API key and custom URL selections the model draws
\* from: two that pass the pre-flight checks, three whose endpoint is not in
\* the model's endpoint_support, one without the API key
Selections ==
    { <<ENDPOINT_VERTEX_AI, "claude-sonnet-4-5", FALSE, FALSE>>,
      <<ENDPOINT_AI_STUDIO, "gemini-2-5-flash", TRUE, FALSE>>,
      <<ENDPOINT_VERTEX_AI, "gemini-3-pro-preview-deep-think", FALSE, FALSE>>,
      <<ENDPOINT_AI_STUDIO, "claude-sonnet-4-5", TRUE, FALSE>>,
      <<ENDPOINT_CUSTOM, "claude-sonnet-4-5", FALSE, TRUE>>,
      <<ENDPOINT_AI_STUDIO, "gemini-2-5-flash", FALSE, FALSE>> }

EmptyInput == Input(FALSE, ENDPOINT_VERTEX_AI, "claude-sonnet-4-5", FALSE, FALSE)
Inputs == {EmptyInput} \cup { Input(TRUE, s[1], s[2], s[3], s[4]) : s \in Selections }

\* if endpoint_type not in endpoint_support
validate_endpoint_none(in) == TRUE
validate_endpoint(in) == in.endpoint_type \in endpoint_support(in.model)

\* how one call of generate_response ends: it returns at the empty prompt,
\* raises in a pre-flight rejection (show_message, then the call of the
\* undefined self.reset_ui_state), or starts a worker
gen_outcome(in) ==
    IF ~in.has_prompt THEN "empty"
    ELSE IF ~validate_endpoint(in) THEN "not_supported"
    ELSE IF in.endpoint_type = ENDPOINT_AI_STUDIO /\ ~in.api_key THEN "no_api_key"
    ELSE IF in.endpoint_type = ENDPOINT_CUSTOM /\ ~in.custom_url THEN "no_custom_url"
    ELSE "started"

Rejections == {"not_supported", "no_api_key", "no_custom_url"}

\* generate_response called, in tab order, on the tabs of `called`, tab t
\* reading ins[t]
Generate(ins, called) ==
    LET out(t) == gen_outcome(ins[t])
        started == {t \in called : out(t) = "started"}
        nextId == Cardinality({w \in WorkerIds : pc[w] # "none"}) + 1
        idOf(t) == nextId + Cardinality({u \in started : u < t})
        newIds == {idOf(t) : t \in started}
        tabOf(w) == CHOOSE t \in started : idOf(t) = w
        ran == {t \in called : out(t) # "empty"}
    IN  /\ \A t \in started : idOf(t) <= MaxWorkers
        /\ pc' = [w \in WorkerIds |-> IF w \in newIds THEN "start" ELSE pc[w]]
        /\ req' = [w \in WorkerIds |->
                     IF w \in newIds
                     THEN [tab |-> tabOf(w),
                           endpoint_type |-> ins[tabOf(w)].endpoint_type,
                           model |-> ins[tabOf(w)].model,
                           api_key |-> ins[tabOf(w)].api_key,
                           custom_url |-> ins[tabOf(w)].custom_url,
                           prompt |-> Prompt(w), prompt_rest |-> 0,
                           use_1m_context |-> FALSE, include_thoughts |-> TRUE,
                           chain_mode |-> chain_mode_enabled,
                           has_file |-> FALSE, file_path |-> None, file_data |-> << >>]
                     ELSE req[w]]
        \* history=self.history if chain_mode else None; self.history = history or []
        \* a worker that holds the list a tab rebinds keeps the old list
        /\ hist' = [w \in WorkerIds |->
                     IF w \in newIds
                     THEN [alias |-> chain_mode_enabled /\ history[tabOf(w)] # << >>,
                           val |-> << >>]
                     ELSE IF hist[w].alias /\ req[w].tab \in started /\ ~chain_mode_enabled
                     THEN [alias |-> FALSE, val |-> history[req[w].tab]]
                     ELSE hist[w]]
        /\ worker' = [t \in Tabs |-> IF t \in started THEN idOf(t) ELSE worker[t]]
        /\ history' = [t \in Tabs |->
                         IF t \in started /\ ~chain_mode_enabled THEN << >> ELSE history[t]]
        /\ last_prompt' = [t \in Tabs |->
                             IF t \in started THEN Prompt(idOf(t)) ELSE last_prompt[t]]
        /\ generate_btn' = [t \in Tabs |-> IF t \in ran THEN FALSE ELSE generate_btn[t]]
        /\ raw_response' = [t \in Tabs |-> IF t \in ran THEN EmptyText ELSE raw_response[t]]
        /\ parsed_response' =
               [t \in Tabs |-> IF t \in ran THEN EmptyText ELSE parsed_response[t]]
        /\ message' = [t \in Tabs |->
                         IF t \notin called \/ out(t) = "started" THEN message[t]
                         ELSE IF out(t) = "empty" THEN "Please enter a query"
                         ELSE out(t)]
        /\ UNCHANGED <<is_cancelled, status_code, response_text, chunk, payload, emitted,
                       progress, netlog, cancelAt, response_info, winVars, inbox>>

\* a click on the tab's generate button, the tab holding one of the inputs I
GenerateResponseFrom(I, t) ==
    /\ main_wait = 0
    /\ generate_btn[t]
    /\ \E in \in I : Generate([u \in Tabs |-> in], {t})
GenerateResponse(t) == GenerateResponseFrom(Inputs, t)

\* MainWindow.generate_all: generate_response on every tab with a prompt, in
\* tab order; a call that raises ends the loop (the tabs hold inputs of I)
GenerateAllFrom(I) ==
    /\ main_wait = 0
    /\ \E ins \in [Tabs -> I] :
         LET hasPrompt == {t \in Tabs : ins[t].has_prompt}
             called == {t \in hasPrompt :
                          \A u \in hasPrompt : u < t => gen_outcome(ins[u]) \notin Rejections}
         IN  called # {} /\ Generate(ins, called)
GenerateAll == GenerateAllFrom(Inputs)

\* ------------------------------------------------------- QueryTab.stop_query
\* a click on the stop button while the tab's worker runs: cancel(), then
\* wait() blocks the main thread until run() has returned
StopQuery(t) ==
    /\ main_wait = 0
    /\ ~generate_btn[t]
    /\ worker[t] # 0
    /\ pc[worker[t]] # "done"
    /\ is_cancelled' = cancel(worker[t])
    /\ main_wait' = worker[t]
    /\ UNCHANGED <<pc, req, hist, status_code, response_text, chunk, payload, emitted,
                   progress, netlog, cancelAt, tabVars, chain_mode_enabled, raw_json, inbox>>

\* wait() returns; on_query_stopped
StopQueryReturn ==
    /\ main_wait # 0
    /\ pc[main_wait] = "done"
    /\ LET t == req[main_wait].tab
       IN /\ generate_btn' = [generate_btn EXCEPT ![t] = TRUE]
          /\ response_info' = [response_info EXCEPT ![t] = "Stopped"]
          /\ message' = [message EXCEPT ![t] = "Query stopped"]
    /\ main_wait' = 0
    /\ UNCHANGED <<workerVars, worker, history, last_prompt, raw_response,
                   parsed_response, chain_mode_enabled, raw_json, inbox>>

\* ------------------------------------------------------ QueryTab.on_response
\* A worker whose run() has returned and whose finished signal has been
\* delivered is read by nothing but isRunning(): the model forgets its fields.
Release(w) ==
    /\ req' = [req EXCEPT ![w] = NoReq]
    /\ hist' = [hist EXCEPT ![w] = NoHist]
    /\ is_cancelled' = [is_cancelled EXCEPT ![w] = FALSE]
    /\ emitted' = [emitted EXCEPT ![w] = << >>]
    /\ progress' = [progress EXCEPT ![w] = << >>]
    /\ netlog' = [netlog EXCEPT ![w] = << >>]
    /\ status_code' = [status_code EXCEPT ![w] = 0]
    /\ response_text' = [response_text EXCEPT ![w] = EmptyText]
    /\ chunk' = [chunk EXCEPT ![w] = EmptyText]
    /\ payload' = [payload EXCEPT ![w] = NoPayload]

\* the main thread delivers the oldest queued finished signal to the tab that
\* connected it
OnResponse ==
    /\ main_wait = 0
    /\ inbox # << >>
    /\ LET r == Head(inbox).result
           t == req[Head(inbox).w].tab
           append == r.error = "" /\ ~raw_json /\ chain_mode_enabled
       IN /\ generate_btn' = [generate_btn EXCEPT ![t] = TRUE]
          /\ message' = [message EXCEPT ![t] = IF r.error # "" THEN "Error" ELSE "success"]
          /\ response_info' = [response_info EXCEPT ![t] =
                                  IF r.error # "" THEN "Failed" ELSE "OK"]
          /\ raw_response' = [raw_response EXCEPT ![t] =
                                 IF r.error # "" THEN @ ELSE r.raw_response]
          /\ parsed_response' = [parsed_response EXCEPT ![t] =
                                    IF r.error # "" THEN @ ELSE r.response]
          /\ history' = [history EXCEPT ![t] =
                           IF append
                           THEN @ \o <<user_turn(last_prompt[t]), assistant_turn(r.response)>>
                           ELSE @]
    /\ inbox' = Tail(inbox)
    /\ Release(Head(inbox).w)
    /\ UNCHANGED <<pc, cancelAt, worker, last_prompt, winVars>>

\* ------------------------------------------------------------- MainWindow
\* toggle_chain_mode
ToggleChainMode ==
    /\ main_wait = 0
    /\ chain_mode_enabled' = ~chain_mode_enabled
    /\ UNCHANGED <<workerVars, tabVars, raw_json, main_wait, inbox>>

\* toggle_raw_json_all_tabs
ToggleRawJson ==
    /\ main_wait = 0
    /\ raw_json' = ~raw_json
    /\ UNCHANGED <<workerVars, tabVars, chain_mode_enabled, main_wait, inbox>>

\* ------------------------------------------------------- the specifications
WorkerStep(w) ==
    \/ RunStart(w)
    \/ Auth(w)
    \/ RefreshReturn(w)
    \/ CheckAuth(w)
    \/ Build(w)
    \/ CheckBuild(w)
    \/ PostReturn(w)
    \/ CheckPost(w)
    \/ Status(w)
    \/ ReadReturn(w)
    \/ CheckChunk(w)
    \/ CheckStream(w)
    \/ Parse(w)

\* every field of a worker but pc, req and history as __init__ and the start
\* of run() leave them
WorkersFresh ==
    /\ is_cancelled = [w \in WorkerIds |-> FALSE]
    /\ status_code = [w \in WorkerIds |-> 0]
    /\ response_text = [w \in WorkerIds |-> EmptyText]
    /\ chunk = [w \in WorkerIds |-> EmptyText]
    /\ payload = [w \in WorkerIds |-> NoPayload]
    /\ emitted = [w \in WorkerIds |-> << >>]
    /\ progress = [w \in WorkerIds |-> << >>]
    /\ netlog = [w \in WorkerIds |-> << >>]
    /\ cancelAt = [w \in WorkerIds |-> NoCancel]

\* the labels and the main thread after MainWindow.__init__
DisplayFresh ==
    /\ response_info = [t \in Tabs |-> ""]
    /\ message = [t \in Tabs |-> ""]
    /\ raw_response = [t \in Tabs |-> EmptyText]
    /\ parsed_response = [t \in Tabs |-> EmptyText]
    /\ raw_json = FALSE
    /\ main_wait = 0
    /\ inbox = << >>

\* the application after MainWindow.__init__: two tabs, no worker
Init ==
    /\ WorkersFresh
    /\ DisplayFresh
    /\ pc = [w \in WorkerIds |-> "none"]
    /\ req = [w \in WorkerIds |-> NoReq]
    /\ hist = [w \in WorkerIds |-> NoHist]
    /\ worker = [t \in Tabs |-> 0]
    /\ history = [t \in Tabs |-> << >>]
    /\ last_prompt = [t \in Tabs |-> EmptyText]
    /\ generate_btn = [t \in Tabs |-> TRUE]
    /\ chain_mode_enabled = FALSE

\* The positions of run() between two blocking calls: the statements there
\* touch nothing another thread reads, and read only the worker's own cancel
\* flag, which is never reset.  The application-level specifications run
\* them without interleaving other steps (every outcome of such a stretch is
\* the outcome of an execution in which the stretch was not interrupted);
\* SpecRun below interleaves cancel() with every single step.
LocalPcs == {"auth", "check_auth", "build", "check_build", "check_post", "status",
             "check_chunk", "check_stream"}
Quiet == \A w \in WorkerIds : pc[w] \notin LocalPcs

\* a step of some worker thread, as the application-level specifications
\* schedule it
Workers == \E w \in WorkerIds : (Quiet \/ pc[w] \in LocalPcs) /\ WorkerStep(w)

\* The whole application: every handler of the main thread and the workers.
\* The specifications after it are the parts of it the properties are about.
Next ==
    \/ Quiet /\ \E t \in Tabs : GenerateResponse(t)
    \/ Quiet /\ GenerateAll
    \/ Quiet /\ \E t \in Tabs : StopQuery(t)
    \/ Quiet /\ StopQueryReturn
    \/ Quiet /\ OnResponse
    \/ Quiet /\ ToggleChainMode
    \/ Quiet /\ ToggleRawJson
    \/ Workers

Spec == Init /\ [][Next]_vars

\* The whole application with every tab holding either no prompt or a prompt
\* for claude-sonnet-4-5 on Vertex AI (requests that pass the pre-flight
\* checks).
TabInputs == {EmptyInput, Input(TRUE, ENDPOINT_VERTEX_AI, "claude-sonnet-4-5", FALSE, FALSE)}
NextTabs ==
    \/ Quiet /\ \E t \in Tabs : GenerateResponseFrom(TabInputs, t)
    \/ Quiet /\ GenerateAllFrom(TabInputs)
    \/ Quiet /\ \E t \in Tabs : StopQuery(t)
    \/ Quiet /\ StopQueryReturn
    \/ Quiet /\ OnResponse
    \/ Quiet /\ ToggleChainMode
    \/ Quiet /\ ToggleRawJson
    \/ Workers

SpecTabs == Init /\ [][NextTabs]_vars

\* The generate button of each tab pressed, and the workers it starts; no
\* result is delivered, so a tab starts at most one worker.
NextGen ==
    \/ Quiet /\ \E t \in Tabs : GenerateResponse(t)
    \/ Workers

SpecGen == Init /\ [][NextGen]_vars

\* Conversations: the generate button, the two toggles of the window, the
\* workers and the delivery of their results.
NextChat ==
    \/ Quiet /\ \E t \in Tabs : GenerateResponse(t)
    \/ Quiet /\ OnResponse
    \/ Quiet /\ ToggleChainMode
    \/ Quiet /\ ToggleRawJson
    \/ Workers

SpecChat == Init /\ [][NextChat]_vars

\* the arguments generate_response passes to APIWorker for the selections
\* that pass its checks
StartedArgs(t, k) ==
    { [tab |-> t, endpoint_type |-> in.endpoint_type, model |-> in.model,
       api_key |-> in.api_key, custom_url |-> in.custom_url, prompt |-> Prompt(k),
       prompt_rest |-> 0, use_1m_context |-> FALSE, include_thoughts |-> TRUE,
       chain_mode |-> FALSE, has_file |-> FALSE, file_path |-> None,
       file_data |-> << >>] :
        in \in {i \in Inputs : gen_outcome(i) = "started"} }

\* Every tab has started a worker (generate_all with a prompt on each tab,
\* multi-turn mode off); from there the workers run, the stop button of a
\* tab is pressed or cancel() is called on a worker, and results are delivered.
InitPair ==
    /\ WorkersFresh
    /\ DisplayFresh
    /\ pc = [w \in WorkerIds |-> IF w \in Tabs THEN "start" ELSE "none"]
    /\ \E a \in [Tabs -> UNION {StartedArgs(t, t) : t \in Tabs}] :
          /\ \A t \in Tabs : a[t].tab = t /\ a[t].prompt = Prompt(t)
          /\ req = [w \in WorkerIds |-> IF w \in Tabs THEN a[w] ELSE NoReq]
    /\ hist = [w \in WorkerIds |-> NoHist]
    /\ worker = [t \in Tabs |-> t]
    /\ history = [t \in Tabs |-> << >>]
    /\ last_prompt = [t \in Tabs |-> Prompt(t)]
    /\ generate_btn = [t \in Tabs |-> FALSE]
    /\ chain_mode_enabled = FALSE

NextPair ==
    \/ Quiet /\ \E t \in Tabs : StopQuery(t)
    \/ Quiet /\ StopQueryReturn
    \/ Quiet /\ OnResponse
    \/ Quiet /\ \E w \in WorkerIds : CancelCall(w)
    \/ Workers

SpecPair == InitPair /\ [][NextPair]_vars

\* One APIWorker, constructed with any arguments and started; cancel() may be
\* called from outside at any point of run().  A non-empty history is the
\* list of the tab (self.history = history or []).
ModelConfigs == AVAILABLE_MODELS \cup {GENERIC_MODEL}
\* the reply of the j-th exchange of a conversation
Reply(j) == [i \in 1..(4 * j) |-> BodyChunk[((i - 1) % 4) + 1]]
\* the history on_response leaves after k exchanges: a user turn and an
\* assistant turn per exchange, every turn with a text of its own
RECURSIVE Chat(_)
Chat(k) ==
    IF k = 0 THEN << >>
    ELSE Chat(k - 1) \o <<user_turn(Prompt(k + 1)), assistant_turn(Reply(k))>>
GivenHistories == { Chat(k) : k \in 0..MaxExchanges }
RunArgs ==
    { [tab |-> 1, endpoint_type |-> e, model |-> m, api_key |-> k, custom_url |-> u,
       prompt |-> Prompt(1), prompt_rest |-> 0, use_1m_context |-> x,
       include_thoughts |-> TRUE,
       chain_mode |-> FALSE, has_file |-> FALSE, file_path |-> None,
       file_data |-> << >>] :
        e \in Endpoints, m \in ModelConfigs, k \in BOOLEAN, u \in BOOLEAN,
        x \in BOOLEAN }

InitRun ==
    /\ WorkersFresh
    /\ DisplayFresh
    /\ pc = [w \in WorkerIds |-> IF w = 1 THEN "start" ELSE "none"]
    /\ \E a \in {r \in RunArgs : (r.endpoint_type # ENDPOINT_CUSTOM => ~r.custom_url)
                                 /\ (r.endpoint_type = ENDPOINT_VERTEX_AI => ~r.api_key)},
          h \in GivenHistories :
          /\ req = [w \in WorkerIds |->
                      IF w = 1 THEN [a EXCEPT !.chain_mode = (h # << >>)] ELSE NoReq]
          /\ history = [t \in Tabs |-> IF t = 1 THEN h ELSE << >>]
          /\ hist = [w \in WorkerIds |->
                       IF w = 1 THEN [alias |-> h # << >>, val |-> << >>] ELSE NoHist]
          /\ chain_mode_enabled = (h # << >>)
    /\ worker = [t \in Tabs |-> IF t = 1 THEN 1 ELSE 0]
    /\ last_prompt = [t \in Tabs |-> IF t = 1 THEN Prompt(1) ELSE EmptyText]
    /\ generate_btn = [t \in Tabs |-> t # 1]

NextRun ==
    \/ \E w \in WorkerIds : WorkerStep(w)
    \/ \E w \in WorkerIds : CancelCall(w)

SpecRun == InitRun /\ [][NextRun]_vars

\* max_chars of generate_response for a model of the registry: the longest
\* prompt it starts a worker for
max_chars(model, use_1m) ==
    (IF use_1m /\ supports_1m_context(model)
     THEN SONNET_MAX_INPUT_EXTENDED ELSE max_input_tokens(model)) * CHARS_PER_TOKEN

\* Prompt lengths around the points where max_tokens changes: short prompts,
\* the longest prompts admitted without and with the 1M context window, the
\* length from which the output is reduced, and the length from which the
\* reduced output falls under the least max_tokens.
PromptLengths ==
    {4, 5, 7, 8, 4096}
    \cup {max_chars("claude-sonnet-4-5", FALSE) - d : d \in 0..LengthSpread}
    \cup {max_chars("claude-sonnet-4-5", TRUE) - d : d \in 0..LengthSpread}
    \cup {(CONTEXT_1M - SONNET_MAX_OUTPUT) * CHARS_PER_TOKEN + d :
              d \in (0 - LengthSpread)..LengthSpread}
    \cup {(CONTEXT_1M - MIN_MAX_TOKENS) * CHARS_PER_TOKEN + d :
              d \in (0 - LengthSpread)..LengthSpread}

\* One APIWorker for claude-sonnet-4-5 on Vertex AI, as generate_response
\* starts it: the 1M context checkbox set or not, and a prompt of any length
\* generate_response admits for that setting.
InitTokens ==
    /\ WorkersFresh
    /\ DisplayFresh
    /\ pc = [w \in WorkerIds |-> IF w = 1 THEN "start" ELSE "none"]
    /\ \E x \in BOOLEAN :
         \E len \in {l \in PromptLengths : l <= max_chars("claude-sonnet-4-5", x)} :
            req = [w \in WorkerIds |->
                     IF w = 1
                     THEN [tab |-> 1, endpoint_type |-> ENDPOINT_VERTEX_AI,
                           model |-> "claude-sonnet-4-5", api_key |-> FALSE,
                           custom_url |-> FALSE, prompt |-> Prompt(1),
                           prompt_rest |-> len - Len(Prompt(1)), use_1m_context |-> x,
                           include_thoughts |-> TRUE,
          chain_mode |-> FALSE, has_file |-> FALSE, file_path |-> None, file_data |-> << >>]
                     ELSE NoReq]
    /\ history = [t \in Tabs |-> << >>]
    /\ hist = [w \in WorkerIds |-> NoHist]
    /\ chain_mode_enabled = FALSE
    /\ worker = [t \in Tabs |-> IF t = 1 THEN 1 ELSE 0]
    /\ last_prompt = [t \in Tabs |-> IF t = 1 THEN Prompt(1) ELSE EmptyText]
    /\ generate_btn = [t \in Tabs |-> t # 1]

SpecTokens == InitTokens /\ [][NextRun]_vars

\* ---- runs with an attachment
\* file names: an image, a PDF, a text file, a name without a known type, none
FilePaths == {"photo.png", "paper.pdf", "notes.txt", "blob", None}
\* file contents: an empty file, ASCII text, a two-byte character, a byte
\* that no UTF-8 text holds, the first bytes of a PNG file, a cut-off
\* two-byte character
FileData ==
    { << >>, <<104, 105>>, <<195, 169>>, <<255>>, <<137, 80, 78, 71>>, <<104, 195>> }

\* One APIWorker with an attachment and no history, for a model of the
\* registry on Vertex AI (one of each publisher).
InitAttach ==
    /\ WorkersFresh
    /\ DisplayFresh
    /\ pc = [w \in WorkerIds |-> IF w = 1 THEN "start" ELSE "none"]
    /\ \E a \in {r \in RunArgs : /\ r.model \in AVAILABLE_MODELS
                                  /\ r.endpoint_type = ENDPOINT_VERTEX_AI
                                  /\ r.endpoint_type \in endpoint_support(r.model)
                                  /\ ~r.custom_url /\ ~r.api_key /\ ~r.use_1m_context},
            p \in FilePaths, d \in FileData :
          req = [w \in WorkerIds |->
                   IF w = 1
                   THEN [a EXCEPT !.has_file = TRUE, !.file_path = p, !.file_data = d]
                   ELSE NoReq]
    /\ history = [t \in Tabs |-> << >>]
    /\ hist = [w \in WorkerIds |-> NoHist]
    /\ chain_mode_enabled = FALSE
    /\ worker = [t \in Tabs |-> IF t = 1 THEN 1 ELSE 0]
    /\ last_prompt = [t \in Tabs |-> IF t = 1 THEN Prompt(1) ELSE EmptyText]
    /\ generate_btn = [t \in Tabs |-> t # 1]

SpecAttach == InitAttach /\ [][NextRun]_vars

\* ---- response bodies and the run that parses them
\* the lines of an Anthropic stream: text events, tool events, an event
\* without content, a blank payload, the end marker, a line that is not
\* JSON, and a line that is not a data line
EVENT == "event: message"
AnthropicLines ==
    { <<DATA, CBS_TEXT_A>>, <<DATA, DELTA_TEXT_B>>, <<DATA, CBS_TOOL_USE>>,
      <<DATA, DELTA_INPUT_JSON>>, <<DATA, MESSAGE_STOP>>, <<DATA>>, <<DATA, DONE>>,
      <<DATA, MALFORMED>>, <<EVENT>> }
\* the lines of a Google stream: one response object each, or a line that is
\* not JSON
GoogleLines ==
    { <<G_TEXT_A>>, <<G_THOUGHT_T>>, <<G_THOUGHT_U_TEXT_B>>, <<G_THOUGHT_BLANK>>,
      <<G_SOURCES_1_2>>, <<G_SOURCES_1_1>>, <<G_SOURCES_2_1>>, <<MALFORMED>> }

\* every list of at most MaxLines lines
LineLists(Lines) == UNION { [1..k -> Lines] : k \in 0..MaxLines }

\* lines joined by sep
RECURSIVE join(_, _)
join(lines, sep) ==
    IF lines = << >> THEN << >>
    ELSE IF Len(lines) = 1 THEN lines[1]
    ELSE lines[1] \o sep \o join(Tail(lines), sep)

\* a body of newline-delimited lines, and a body that is a JSON array with
\* one element per line
LinesBody(lines) == join(lines, <<NL>>)
ArrayBody(lines) == <<"[">> \o join(lines, <<NL, ",", NL>>) \o <<NL, "]">>

\* the bodies a server sends for a model of the given publisher; a
\* newline-delimited Google body may have lines with a trailing comma
Bodies(pub) ==
    IF pub = "anthropic" THEN { LinesBody(ls) : ls \in LineLists(AnthropicLines) }
    ELSE { LinesBody(ls) : ls \in LineLists(GoogleLines \cup {<<G_TEXT_A, ",">>}) }
         \cup { ArrayBody(ls) : ls \in LineLists(GoogleLines) }

\* One APIWorker on Vertex AI (claude-sonnet-4-5 or gemini-2-5-flash, with
\* or without include_thoughts) that has authenticated, sent its request,
\* received status 200 and read the whole body in one chunk: run() is about
\* to parse it.  cancel() may still be called.
BodyRead(m, it, b) ==
    /\ DisplayFresh
    /\ pc = [w \in WorkerIds |-> IF w = 1 THEN "parse" ELSE "none"]
    /\ req = [w \in WorkerIds |->
                IF w = 1
                THEN [tab |-> 1,
                      endpoint_type |-> IF publisher(m) = "generic" THEN ENDPOINT_CUSTOM
                                        ELSE ENDPOINT_VERTEX_AI,
                      model |-> m, api_key |-> FALSE,
                      custom_url |-> publisher(m) = "generic", prompt |-> Prompt(1),
                      prompt_rest |-> 0, use_1m_context |-> FALSE,
                      include_thoughts |-> it,
          chain_mode |-> FALSE, has_file |-> FALSE, file_path |-> None, file_data |-> << >>]
                ELSE NoReq]
    /\ response_text = [w \in WorkerIds |-> IF w = 1 THEN b ELSE EmptyText]
    /\ chunk = [w \in WorkerIds |-> IF w = 1 THEN b ELSE EmptyText]
    /\ netlog = [w \in WorkerIds |->
                   IF w # 1 THEN << >>
                   ELSE IF b = EmptyText THEN <<"refresh", "post", "read">>
                   ELSE <<"refresh", "post", "read", "read">>]
    /\ history = [t \in Tabs |-> << >>]
    /\ hist = [w \in WorkerIds |-> NoHist]
    /\ payload = [w \in WorkerIds |-> IF w = 1 THEN build_request_payload(1) ELSE NoPayload]
    /\ status_code = [w \in WorkerIds |-> IF w = 1 THEN 200 ELSE 0]
    /\ progress = [w \in WorkerIds |-> IF w = 1 THEN <<20, 50, 80>> ELSE << >>]
    /\ is_cancelled = [w \in WorkerIds |-> FALSE]
    /\ emitted = [w \in WorkerIds |-> << >>]
    /\ cancelAt = [w \in WorkerIds |-> NoCancel]
    /\ chain_mode_enabled = FALSE
    /\ worker = [t \in Tabs |-> IF t = 1 THEN 1 ELSE 0]
    /\ last_prompt = [t \in Tabs |-> IF t = 1 THEN Prompt(1) ELSE EmptyText]
    /\ generate_btn = [t \in Tabs |-> t # 1]

InitParse ==
    \E m \in {"claude-sonnet-4-5", "gemini-2-5-flash"}, it \in BOOLEAN :
        /\ publisher(m) = "anthropic" => it
        /\ \E b \in Bodies(publisher(m)) : BodyRead(m, it, b)

NextParse ==
    \/ \E w \in WorkerIds : Parse(w)
    \/ \E w \in WorkerIds : CancelCall(w)

SpecParse == InitParse /\ [][NextParse]_vars

\* ---- the run that parses any body: the bodies above, shortened to the
\* lines that decide what parse_response returns, with a line whose JSON
\* document is not an object, for a model of each publisher
ResponseLines(pub) ==
    IF pub = "anthropic"
    THEN { <<DATA, CBS_TEXT_A>>, <<DATA, CBS_TOOL_USE>>, <<DATA, MALFORMED>>,
           <<DATA, NULL>>, <<DATA, DONE>>, <<EVENT>>, <<CBS_TEXT_A>> }
    ELSE IF pub = "google"
    THEN { <<G_TEXT_A>>, <<G_THOUGHT_T>>, <<G_SOURCES_1_1>>, <<MALFORMED>>, <<NULL>> }
    ELSE { <<DATA, CBS_TEXT_A>>, <<G_TEXT_A>>, <<MALFORMED>> }

ResponseBodies(pub) ==
    { LinesBody(ls) : ls \in LineLists(ResponseLines(pub)) }
        \cup (IF pub = "google"
              THEN { ArrayBody(ls) : ls \in LineLists(ResponseLines(pub)) }
              ELSE {})

InitResponse ==
    \E m \in {"claude-sonnet-4-5", "gemini-2-5-flash", GENERIC_MODEL}, it \in BOOLEAN :
        /\ publisher(m) # "google" => it
        /\ \E b \in ResponseBodies(publisher(m)) : BodyRead(m, it, b)

SpecResponse == InitResponse /\ [][NextParse]_vars

\* ------------------------------------------------------------ the properties
Last(s) == s[Len(s)]
Range(s) == {s[i] : i \in 1..Len(s)}

\* the stage of the run a position of run() belongs to: 0 not started,
\* 1 authenticating, 2 building the request, 3 sending, 4 streaming,
\* 5 parsing, 6 done
StageOf(p) ==
    CASE p \in {"none", "start"} -> 0
      [] p \in {"auth", "refresh", "check_auth"} -> 1
      [] p \in {"build", "check_build"} -> 2
      [] p \in {"post", "check_post", "status"} -> 3
      [] p \in {"read", "check_chunk", "check_stream"} -> 4
      [] p = "parse" -> 5
      [] OTHER -> 6

\* the error a failed network operation is reported with
FailureOf(op) ==
    CASE op = "refresh" -> RefreshErrorMsg
      [] op = "post" -> PostErrorMsg
      [] op = "body" -> BodyErrorMsg
      [] OTHER -> ReadErrorMsg

\* the errors run() emits for a failure, as opposed to a cancellation
FailureMsgs == {NoApiKeyMsg, StatusErrorMsg, ReadErrorMsg, RefreshErrorMsg, PostErrorMsg,
                BodyErrorMsg, BuildUrlErrorMsg, UnknownPublisherMsg}

\* the positions in which run() is blocked in a network operation
SuspensionPcs == {"refresh", "post", "read"}

\* C1: whenever cancel() was called before the terminal emission of a run,
\* that emission is the cancellation error: not a success, not another error.
C1_CancelYieldsCancelled ==
    \A w \in WorkerIds :
        (pc[w] = "done" /\ cancelAt[w].pc # "none")
            => emitted[w] = <<ErrorResult(CancelledMsg)>>

\* C2: a run that has returned has emitted finished exactly once, a run that
\* has not returned has emitted nothing and can take a step: on no path does
\* run() return without the emission, emit twice, or stop short of returning.
C2_FinishedExactlyOnce ==
    \A w \in WorkerIds :
        /\ Len(emitted[w]) <= 1
        /\ (pc[w] = "done") <=> (Len(emitted[w]) = 1)
        /\ pc[w] \notin {"none", "done"} => ENABLED WorkerStep(w)

\* a run ended in the handler of the outer try (a raised exception)
C2_Witness ==
    \E w \in WorkerIds :
        /\ pc[w] = "done"
        /\ emitted[w] = <<ErrorResult(PostErrorMsg)>>
        /\ Last(netlog[w]) = "failed"

\* C4: every emission with an error carries an empty response, an empty raw
\* response and zero token counts, whatever had been accumulated.
C4_ErrorsCarryNothing ==
    \A w \in WorkerIds : \A i \in 1..Len(emitted[w]) :
        emitted[w][i].error # ""
            => /\ emitted[w][i].response = EmptyText
               /\ emitted[w][i].raw_response = EmptyText
               /\ emitted[w][i].input_tokens = 0
               /\ emitted[w][i].output_tokens = 0

\* a chunk read failed after a chunk had been accumulated
C4_Witness ==
    \E w \in WorkerIds :
        /\ pc[w] = "done"
        /\ response_text[w] # EmptyText
        /\ emitted[w] # << >>
        /\ emitted[w][1].error = ReadErrorMsg

\* C5: after cancel() was called while run() was blocked in the refresh, the
\* POST or a chunk read, the worker starts no further network operation,
\* appends no further chunk and never parses; after a cancel during the
\* refresh no POST is sent; and when the blocked operation did not fail the
\* run ends with the cancellation error.
C5_CancelWhileBlocked ==
    \A w \in WorkerIds :
        cancelAt[w].pc \in SuspensionPcs
            => /\ NetOps(w) = cancelAt[w].ops
               /\ response_text[w] = cancelAt[w].text
               /\ pc[w] # "parse"
               /\ 100 \notin Range(progress[w])
               /\ cancelAt[w].pc = "refresh" => CountOf(netlog[w], "post") = 0
               /\ (pc[w] = "done" /\ CountOf(netlog[w], "failed") = 0)
                      => emitted[w] = <<ErrorResult(CancelledMsg)>>

\* cancel() during the POST, the POST answered 200, the run ended cancelled
C5_Witness ==
    \E w \in WorkerIds :
        /\ pc[w] = "done"
        /\ cancelAt[w].pc = "post"
        /\ status_code[w] = 200
        /\ emitted[w] = <<ErrorResult(CancelledMsg)>>

\* C6: the stages of a run only advance (none is revisited) and there is one
\* POST; and a run whose cancel flag was set before it ended, and in which
\* nothing failed, ends in the cancelled outcome.
C6_StagesAndCancel ==
    [][\A w \in WorkerIds :
          /\ StageOf(pc'[w]) >= StageOf(pc[w])
          /\ CountOf(netlog'[w], "post") <= 1
          /\ (pc[w] # "done" /\ pc'[w] = "done" /\ is_cancelled[w]
                 /\ emitted'[w] # << >> /\ emitted'[w][1].error \notin FailureMsgs)
                => emitted'[w][1].error = CancelledMsg]_vars

\* the network operations of a run: one refresh and one POST at most, a
\* failed operation is the last one and the run ends with its error, no
\* chunk is read after a status other than 200
C7_Operations(w) ==
    /\ CountOf(netlog[w], "refresh") <= 1
    /\ CountOf(netlog[w], "post") <= 1
    /\ CountOf(netlog[w], "failed") <= 1
    /\ CountOf(netlog[w], "failed") = 1
          => /\ Last(netlog[w]) = "failed"
             /\ pc[w] = "done"
             /\ emitted[w] = <<ErrorResult(FailureOf(netlog[w][Len(netlog[w]) - 1]))>>
    /\ status_code[w] \notin {0, 200} => CountOf(netlog[w], "read") = 0

\* C7: at most one refresh and one POST, nothing retried; after a failed
\* refresh, POST or chunk read no further network operation, and the run
\* ends with that error; after a status other than 200 no chunk is read:
\* when cancel() was called before the cancellation check that follows the
\* POST the run ends with the cancellation error and no further operation,
\* otherwise the body of that response is read for the error message and
\* the run ends with the status error, or with the error of that read.
C7_NoRetry ==
    \A w \in WorkerIds :
        /\ C7_Operations(w)
        /\ (status_code[w] \notin {0, 200} /\ pc[w] = "done")
              => IF cancelAt[w].pc \notin {"none", "status"}
                 THEN /\ Last(netlog[w]) = "post"
                      /\ emitted[w] = <<ErrorResult(CancelledMsg)>>
                 ELSE /\ CountOf(netlog[w], "body") = 1
                      /\ emitted[w] =
                            <<ErrorResult(IF Last(netlog[w]) = "failed"
                                          THEN BodyErrorMsg ELSE StatusErrorMsg)>>

\* C7 as stated: after a status other than 200, too, the run makes no
\* further network operation and ends with the status error.
C7_AsStated ==
    \A w \in WorkerIds :
        /\ C7_Operations(w)
        /\ (status_code[w] \notin {0, 200} /\ pc[w] = "done")
              => /\ Last(netlog[w]) = "post"
                 /\ emitted[w] = <<ErrorResult(StatusErrorMsg)>>

\* the POST failed after the refresh: nothing followed
C7_Witness ==
    \E w \in WorkerIds :
        /\ pc[w] = "done"
        /\ netlog[w] = <<"refresh", "post", "failed">>
        /\ emitted[w] = <<ErrorResult(PostErrorMsg)>>

\* C10: no step of a constructed worker, and no cancel(), changes the history
\* list the worker was given.
C10_HistoryNotMutated ==
    [][\A w \in WorkerIds :
          pc[w] # "none" => WorkerHistory(w)' = WorkerHistory(w)]_vars

\* a run given a history of two turns read it into its payload and succeeded
C10_Witness ==
    \E w \in WorkerIds :
        /\ pc[w] = "done"
        /\ Len(WorkerHistory(w)) = 2
        /\ Len(payload[w].messages) = 3
        /\ emitted[w] # << >>
        /\ emitted[w][1].error = ""

C8_CancelIsLocal ==
    [][\A w \in WorkerIds :
          /\ (~is_cancelled[w] /\ is_cancelled'[w])
                => \A v \in WorkerIds \ {w} :
                      /\ is_cancelled'[v] = is_cancelled[v]
                      /\ pc'[v] = pc[v]
                      /\ response_text'[v] = response_text[v]
                      /\ emitted'[v] = emitted[v]
          /\ (pc[w] # "done" /\ pc'[w] = "done" /\ ~is_cancelled[w])
                => emitted'[w] # <<ErrorResult(CancelledMsg)>>]_vars

\* one worker was stopped and ended cancelled, the other one, not cancelled,
\* ended with a success that carries its response
C8_Witness ==
    \E w \in WorkerIds, v \in WorkerIds :
        /\ w # v
        /\ is_cancelled[w]
        /\ emitted[w] = <<ErrorResult(CancelledMsg)>>
        /\ ~is_cancelled[v]
        /\ emitted[v] # << >>
        /\ emitted[v][1].error = ""
        /\ emitted[v][1].response = BodyChunk

\* C9: with multi-turn mode on, the delivery of a successful result appends
\* to the tab's history the user turn with that call's prompt and the
\* assistant turn with its reply, and the delivery of an error leaves the
\* history as it was.
C9_HistoryGrowsByTwo ==
    [][(inbox # << >> /\ inbox' = Tail(inbox) /\ chain_mode_enabled)
          => LET w == Head(inbox).w
                 r == Head(inbox).result
                 t == req[w].tab
             IN history'[t] =
                   IF r.error = ""
                   THEN history[t] \o <<user_turn(req[w].prompt), assistant_turn(r.response)>>
                   ELSE history[t]]_vars

\* C11: the list of a built payload has one entry more than the worker's
\* history; entry i carries the content of history turn i, with the turn's
\* role on the anthropic and the custom branch and with assistant replaced
\* by model (every other role by user) on the google branch; the last entry
\* is the current prompt as a user turn.
C11_PayloadFollowsHistory ==
    \A w \in WorkerIds :
        payload[w].kind # "none" =>
            LET h == WorkerHistory(w)
                m == payload[w].messages
            IN /\ Len(m) = Len(h) + 1
               /\ \A i \in 1..Len(h) :
                     m[i] = IF payload[w].kind = "google"
                            THEN [role |-> IF h[i].role = "assistant" THEN "model"
                                           ELSE h[i].role,
                                  parts |-> <<[text |-> h[i].content]>>]
                            ELSE [role |-> h[i].role, content |-> h[i].content]
               /\ m[Len(m)] =
                     CASE payload[w].kind = "google" ->
                            [role |-> "user", parts |-> <<[text |-> req[w].prompt]>>]
                       [] payload[w].kind = "anthropic" ->
                            [role |-> "user",
                             content |-> <<[type |-> "text", text |-> req[w].prompt]>>]
                       [] OTHER -> [role |-> "user", content |-> req[w].prompt]

\* a google payload built from a history of two exchanges: both assistant
\* turns were sent as model turns
C11_Witness ==
    \E w \in WorkerIds :
        /\ payload[w].kind = "google"
        /\ Len(WorkerHistory(w)) = 4
        /\ Len(payload[w].messages) = 5
        /\ payload[w].messages[2].role = "model"
        /\ payload[w].messages[4].role = "model"
        /\ "post" \in Range(netlog[w])

\* C12: every payload built by a worker of the custom endpoint is the
\* OpenAI-style body: the keys model, messages, stream and max_tokens, and a
\* flat message list of role and content, whatever the publisher of the model.
C12_CustomBodyIsOpenAI ==
    \A w \in WorkerIds :
        (payload[w].kind # "none" /\ req[w].endpoint_type = ENDPOINT_CUSTOM) =>
            /\ payload[w].keys = {"model", "messages", "stream", "max_tokens"}
            /\ payload[w].messages =
                  copy_turns(WorkerHistory(w)) \o
                      <<[role |-> "user", content |-> req[w].prompt]>>

\* C13: a worker of the custom endpoint never refreshes the managed
\* credentials, and what it POSTs goes to the URL it was given, without an
\* Authorization header carrying a bearer token.
C13_CustomSendsNoBearer ==
    \A w \in WorkerIds :
        (pc[w] # "none" /\ req[w].endpoint_type = ENDPOINT_CUSTOM) =>
            /\ "refresh" \notin Range(netlog[w])
            /\ "post" \in Range(netlog[w]) =>
                  /\ build_url(w) = "custom_url"
                  /\ "Authorization" \notin DOMAIN headers(w)

C15_MaxTokensWithinContext ==
    \A w \in WorkerIds :
        payload[w].kind = "anthropic" =>
            /\ payload[w].max_tokens >= MIN_MAX_TOKENS
            /\ (req[w].use_1m_context /\ supports_1m_context(req[w].model)) =>
                  (len_prompt(w) \div CHARS_PER_TOKEN) + payload[w].max_tokens
                      <= CONTEXT_1M

\* the success emission of worker w, if it made one
Succeeded(w) == emitted[w] # << >> /\ emitted[w][1].error = ""

\* the text an Anthropic document contributes to the answer
TextOf(tok) ==
    CASE tok = CBS_TEXT_A -> <<"A">>
      [] tok = DELTA_TEXT_B -> <<"B">>
      [] OTHER -> << >>

\* C16: for every Anthropic stream, parse_anthropic_stream returns the texts
\* of the text block starts and the text deltas of its data lines,
\* concatenated in the order of arrival; tool_use starts, input_json_delta
\* deltas, blank payloads, [DONE] and every other line add nothing.  A
\* parsed text that is not empty is the response of the success emission.
C16_TextInArrivalOrder ==
    \A w \in WorkerIds :
        (publisher(req[w].model) = "anthropic" /\ Succeeded(w)) =>
            LET text == response_text[w]
                out == parse_anthropic_stream(text)
            IN /\ out = concat([i \in 1..Len(text) |->
                                   IF i > 1 /\ text[i - 1] = DATA THEN TextOf(text[i])
                                   ELSE << >>])
               /\ out # << >> => emitted[w][1].response = out

\* a stream of a text block start, a tool_use start and a text delta was
\* parsed to the two texts
C16_Witness ==
    \E w \in WorkerIds :
        /\ Succeeded(w)
        /\ response_text[w] =
              LinesBody(<<<<DATA, CBS_TEXT_A>>, <<DATA, CBS_TOOL_USE>>, <<DATA, DELTA_TEXT_B>>>>)
        /\ emitted[w][1].response = <<"A", "B">>

\* the documents that hold tool-use content: a tool name, tool arguments
ToolContent == {CBS_TOOL_USE, DELTA_INPUT_JSON}

\* C17: the response of the success emission of a run on an Anthropic model
\* holds no tool-use content, whatever the stream was.
C17_NoToolContentVisible ==
    \A w \in WorkerIds :
        (publisher(req[w].model) = "anthropic" /\ Succeeded(w)) =>
            Range(emitted[w][1].response) \cap ToolContent = {}

\* the lines of a body that are not the punctuation of a JSON array
ContentLines(text) ==
    SelectSeq([i \in 1..Len(split(text)) |-> strip(split(text)[i])],
              LAMBDA l : l \notin {<< >>, <<"[">>, <<"]">>, <<",">>})
\* the content lines of a body written as an array have the opening bracket
\* in front of the first of them
IsArrayBody(text) == text # << >> /\ Head(text) = "["
UnBracket(lines) ==
    [i \in 1..Len(lines) |->
        IF Head(lines[i]) = "[" /\ Len(lines[i]) > 1 THEN Tail(lines[i]) ELSE lines[i]]
IsMalformedLine(l) == l \in {<<MALFORMED>>, <<DATA, MALFORMED>>}
\* the body with the same lines in the same format, without those that are not JSON
ValidLinesAlone(text) ==
    LET valid == SelectSeq(UnBracket(ContentLines(text)), LAMBDA l : ~IsMalformedLine(l))
    IN IF IsArrayBody(text) THEN ArrayBody(valid) ELSE LinesBody(valid)

\* C18: when a parsed body has exactly one line that is not JSON, the output
\* of the publisher's parser is its output for the body of the other lines
\* alone, in each format: Anthropic data lines, Google newline-delimited
\* objects, Google objects as the lines of a JSON array.
C18_MalformedLineSkipped ==
    \A w \in WorkerIds :
        (Succeeded(w) /\ CountOf(response_text[w], MALFORMED) = 1) =>
            IF publisher(req[w].model) = "anthropic"
            THEN parse_anthropic_stream(response_text[w]) =
                     parse_anthropic_stream(ValidLinesAlone(response_text[w]))
            ELSE parse_google_stream(response_text[w], req[w].include_thoughts) =
                     parse_google_stream(ValidLinesAlone(response_text[w]),
                                         req[w].include_thoughts)

\* the title and the URI of each grounding chunk of a Google document
SourcesOf(tok) ==
    CASE tok = G_SOURCES_1_2 -> << <<"t1", "u1">>, <<"t2", "u2">> >>
      [] tok = G_SOURCES_1_1 -> << <<"t1", "u1">>, <<"t1b", "u1">> >>
      [] tok = G_SOURCES_2_1 -> << <<"t2", "u2">>, <<"t1", "u1">> >>
      [] OTHER -> << >>
\* the grounding chunks of a body, in the order of arrival
AllSources(text) == concat([i \in 1..Len(text) |-> SourcesOf(text[i])])
\* the chunks whose URI no earlier chunk has
FirstSeen(srcs) ==
    concat([i \in 1..Len(srcs) |->
               IF \A j \in 1..(i - 1) : srcs[j][2] # srcs[i][2] THEN <<srcs[i]>> ELSE << >>])
\* sub occurs in s as a run of consecutive elements
IsInfix(sub, s) ==
    \E i \in 0..(Len(s) - Len(sub)) : SubSeq(s, i + 1, i + Len(sub)) = sub
\* a body the Google parser reads objects from: not an array broken by a
\* line that is not JSON (C18)
Readable(text) == ~(IsArrayBody(text) /\ MALFORMED \in Range(text))

\* C19: when the objects of a Google stream carry grounding chunks, the
\* sources section of the response is the header followed by one entry per
\* distinct URI, in the order of first occurrence, numbered 1..k, with the
\* title of the first occurrence, and the response has no other entry.
C19_SourcesOncePerUri ==
    \A w \in WorkerIds :
        (/\ publisher(req[w].model) = "google"
         /\ Succeeded(w)
         /\ Readable(response_text[w])
         /\ AllSources(response_text[w]) # << >>) =>
            LET first == FirstSeen(AllSources(response_text[w]))
                out == emitted[w][1].response
            IN /\ IsInfix(<<SOURCES_HEADER, RULE>>
                           \o concat([n \in 1..Len(first) |->
                                         <<"[", ToString(n), "] ", first[n][1],
                                           " (", first[n][2], ")", NL>>])
                           \o <<NL, ANSWER_HEADER>>, out)
               /\ CountOf(out, "[") = Len(first)
               /\ CountOf(out, SOURCES_HEADER) = 1

\* u1 twice in one object and once more in the next, after u2: two entries
C19_Witness ==
    \E w \in WorkerIds :
        /\ Succeeded(w)
        /\ response_text[w] = LinesBody(<<<<G_SOURCES_1_1>>, <<G_SOURCES_2_1>>>>)
        /\ emitted[w][1].response =
              <<SOURCES_HEADER, RULE, "[", "1", "] ", "t1", " (", "u1", ")", NL,
                "[", "2", "] ", "t2", " (", "u2", ")", NL, NL, ANSWER_HEADER, RULE>>

\* the text of the thought parts of each document, and its answer text
ThoughtOf(tok) ==
    CASE tok = G_THOUGHT_T -> <<"T">>
      [] tok = G_THOUGHT_U_TEXT_B -> <<"U">>
      [] tok = G_THOUGHT_BLANK -> <<" ">>
      [] OTHER -> << >>
AnswerOf(tok) ==
    CASE tok = G_TEXT_A -> <<"A">>
      [] tok = G_THOUGHT_U_TEXT_B -> <<"B">>
      [] tok = G_SOURCES_1_2 -> <<"C">>
      [] OTHER -> << >>
\* the thinking text of a body: the texts of its thought parts
ThinkingText(text) == concat([i \in 1..Len(text) |-> ThoughtOf(text[i])])
\* the position of the first x in s
IndexOf(s, x) == CHOOSE i \in 1..Len(s) : s[i] = x /\ \A j \in 1..(i - 1) : s[j] # x

Structured(w) ==
    IF publisher(req[w].model) = "anthropic" THEN parse_anthropic_stream(response_text[w])
    ELSE parse_google_stream(response_text[w], req[w].include_thoughts)
StructuredRaises(w) ==
    IF publisher(req[w].model) = "anthropic" THEN anthropic_stream_raises(response_text[w])
    ELSE google_stream_raises(response_text[w])

\* C21: the response of a successful run is the raw body exactly when the
\* structured parser of the model's publisher yields an empty result, and
\* always for a publisher without a structured parser; when the parser yields
\* a non-empty text the response is that text and not the raw body
C21_RawExactlyWhenParseEmpty ==
    \A w \in WorkerIds :
        Succeeded(w) =>
            LET r == emitted[w][1].response
                b == response_text[w]
            IN IF publisher(req[w].model) = "generic" THEN r = b
               ELSE /\ (r = b) <=> (~StructuredRaises(w) /\ Structured(w) = << >>)
                    /\ (~StructuredRaises(w) /\ Structured(w) # << >>)
                           => (r = Structured(w) /\ r # b)

\* a successful Gemini run whose body is not empty and holds no object the
\* parser can read: the response is the body
C21_Witness ==
    \E w \in WorkerIds :
        /\ Succeeded(w)
        /\ publisher(req[w].model) = "google"
        /\ response_text[w] # << >>
        /\ ~StructuredRaises(w)
        /\ Structured(w) = << >>
        /\ emitted[w][1].response = response_text[w]

\* ---- C22
\* the POST of run w was answered with a status other than 200 and the
\* cancellation check that follows the POST did not find the flag set
NonOkUncancelled(w) ==
    /\ status_code[w] \notin {0, 200}
    /\ pc[w] \notin {"post", "check_post"}
    /\ cancelAt[w].pc \in {"none", "status"}

\* after such a POST no chunk is read in the stream loop, the parser is not
\* invoked and no success is emitted
C22_NoStreamNoParse(w) ==
    /\ CountOf(netlog[w], "read") = 0
    /\ pc[w] \in {"status", "done"}
    /\ progress[w] = <<20, 50>>
    /\ ~Succeeded(w)
    /\ pc[w] = "done" => Len(emitted[w]) = 1

\* C22: a run whose POST was answered with a status other than 200, and
\* whose cancel flag was not set at the check after the POST, reads no chunk
\* in the stream loop, never parses, never emits success, and emits one
\* error, whose message holds the status code.
C22_NonOkStatus ==
    \A w \in WorkerIds :
        NonOkUncancelled(w)
            => /\ C22_NoStreamNoParse(w)
               /\ pc[w] = "done" => emitted[w] = <<ErrorResult(StatusErrorMsg)>>

\* ---- C23
\* C23: the cancellation error is emitted only by a run whose cancel flag is
\* set, every emission made at a cancellation check is that error, and
\* on_response does not present a delivered cancellation error as a failure.
C23_CancelledIsDistinguished ==
    [][/\ \A w \in WorkerIds : \A i \in 1..Len(emitted[w]) :
             /\ emitted[w][i].error = CancelledMsg => is_cancelled[w]
             /\ emitted[w][i].error \in FailureMsgs => emitted[w][i].error # CancelledMsg
       /\ (inbox # << >> /\ inbox' = Tail(inbox)
              /\ Head(inbox).result.error = CancelledMsg)
             => LET t == req[Head(inbox).w].tab
                IN response_info'[t] # "Failed" /\ message'[t] # "Error"]_vars

\* ---- C24
\* the blocks of the current turn of a built payload
CurrentBlocks(w) ==
    IF payload[w].kind = "google" THEN Last(payload[w].messages).parts
    ELSE Last(payload[w].messages).content
\* block b embeds the file of run w in base64
IsBase64Block(w, b) ==
    IF payload[w].kind = "google"
    THEN DOMAIN b = {"inline_data"} /\ b.inline_data.data = b64encode(req[w].file_data)
    ELSE /\ DOMAIN b = {"type", "source"}
         /\ b.type \in {"image", "document"}
         /\ b.source.type = "base64"
         /\ b.source.data = b64encode(req[w].file_data)
\* block b is a text block that holds the decoded file as it is
IsFileTextBlock(w, b) ==
    /\ "text" \in DOMAIN b
    /\ utf8_decodes(req[w].file_data)
    /\ IsInfix(utf8_decode(req[w].file_data), b.text)
\* block b is the prompt text block
IsPromptBlock(w, b) == "text" \in DOMAIN b /\ b.text = req[w].prompt

\* C24: a run that was given an attachment does not fail in
\* build_request_payload, and the current turn of the payload it builds is
\* one attachment block followed by the prompt text block: the base64 block
\* for an image, the base64 block or the text for a PDF, the decoded text
\* for other bytes that decode as UTF-8 and the base64 block for other
\* bytes that do not.
C24_OneAttachmentBlock ==
    \A w \in WorkerIds :
        (req[w].has_file /\ pc[w] \notin {"none", "start", "auth", "refresh",
                                          "check_auth", "build"})
            => IF payload[w] = NoPayload
               THEN /\ pc[w] = "done"
                    /\ emitted[w][1].error \in {CancelledMsg, RefreshErrorMsg}
               ELSE
                  /\ Len(CurrentBlocks(w)) = 2
                  /\ IsPromptBlock(w, CurrentBlocks(w)[2])
                  /\ LET b == CurrentBlocks(w)[1]
                     IN IF is_image(mime_type(w)) THEN IsBase64Block(w, b)
                        ELSE IF mime_type(w) = "application/pdf"
                        THEN IsBase64Block(w, b) \/ IsFileTextBlock(w, b)
                        ELSE IF utf8_decodes(req[w].file_data)
                        THEN IsFileTextBlock(w, b)
                        ELSE IsBase64Block(w, b)

\* ---- C25
\* C25: a tab's worker is replaced only when the tab has none or its run has
\* returned, and a finished signal is handled by on_response only for the
\* worker the tab references.
C25_OneWorkerPerTab ==
    [][/\ \A t \in Tabs :
             worker'[t] # worker[t] => (worker[t] = 0 \/ pc[worker[t]] = "done")
       /\ (inbox # << >> /\ inbox' = Tail(inbox))
             => worker[req[Head(inbox).w].tab] = Head(inbox).w]_vars

\* ---- C26
\* C26: after generate_response has rejected a request in its pre-flight
\* checks, no worker was started for it and the tab's generate button is
\* available again.
C26_RejectionRestoresIdle ==
    \A t \in Tabs :
        message[t] \in Rejections => (worker[t] = 0 /\ generate_btn[t])

\* ---- C27
\* C27: when the finished signal of a worker that stop_query stopped is
\* delivered to a tab showing the stopped status, the tab keeps that status,
\* stores no response and its history is not appended to.
C27_StoppedStaysStopped ==
    [][\A t \in Tabs :
          (/\ inbox # << >>
           /\ inbox' = Tail(inbox)
           /\ req[Head(inbox).w].tab = t
           /\ is_cancelled[Head(inbox).w]
           /\ response_info[t] = "Stopped")
             => /\ response_info'[t] = "Stopped"
                /\ message'[t] = "Query stopped"
                /\ raw_response'[t] = raw_response[t]
                /\ parsed_response'[t] = parsed_response[t]
                /\ history'[t] = history[t]]_vars

\* ---- C28
\* C28: a request started with chat mode off is sent without history; when
\* the reply of a request is handled, the tab's history gets the request's
\* prompt and the reply appended if the request was started in chat mode,
\* and is empty afterwards if it was started with chat mode off, whatever
\* the toggles are by then.
C28_HistoryFollowsStartMode ==
    [][/\ \A w \in WorkerIds :
             (payload[w] # NoPayload /\ ~req[w].chain_mode)
                => Len(payload[w].messages) = 1
       /\ (inbox # << >> /\ inbox' = Tail(inbox) /\ Head(inbox).result.error = "")
             => LET w == Head(inbox).w
                    t == req[w].tab
                IN IF req[w].chain_mode
                   THEN history'[t] = history[t] \o
                            <<user_turn(req[w].prompt),
                              assistant_turn(Head(inbox).result.response)>>
                   ELSE history'[t] = << >>]_vars

\* ---- C29
\* a history of user and assistant turns in pairs, the user turn first
Alternates(h) ==
    /\ Len(h) % 2 = 0
    /\ \A i \in 1..Len(h) : h[i].role = (IF i % 2 = 1 THEN "user" ELSE "assistant")

\* C29: every tab's history is a sequence of user/assistant pairs, and the
\* pair on_response appends holds the prompt of the request whose reply it
\* handles and that reply.
C29_HistoryPairsMatchRequests ==
    [][/\ \A t \in Tabs : Alternates(history[t]) /\ Alternates(history'[t])
       /\ \A t \in Tabs :
             (inbox # << >> /\ inbox' = Tail(inbox) /\ history'[t] # history[t])
                => history'[t] = history[t] \o
                       <<user_turn(req[Head(inbox).w].prompt),
                         assistant_turn(Head(inbox).result.response)>>]_vars

\* ---- C30
\* the percentages a run emits, in the order of run()
PROGRESS_STEPS == <<20, 50, 80, 100>>

\* C30: the progress emissions of a run are the first percentages of 20,
\* 50, 80, 100 in that order; 100 is emitted only in the step that ends
\* with the success emission; and no progress is emitted once finished has
\* been emitted.
C30_ProgressOrder ==
    [][\A w \in WorkerIds :
          /\ Len(progress'[w]) <= Len(PROGRESS_STEPS)
          /\ progress'[w] = SubSeq(PROGRESS_STEPS, 1, Len(progress'[w]))
          /\ emitted[w] # << >> => progress'[w] = progress[w]
          /\ (progress'[w] # progress[w] /\ Last(progress'[w]) = 100)
                => /\ emitted[w] = << >>
                   /\ Len(emitted'[w]) = 1
                   /\ emitted'[w][1].error = ""
          /\ (emitted'[w] # << >> /\ emitted'[w][1].error # "")
                => 100 \notin Range(progress'[w])]_vars

\* a run that succeeded after all four progress emissions
C30_Witness ==
    \E w \in WorkerIds :
        /\ Succeeded(w)
        /\ progress[w] = PROGRESS_STEPS

====
